---- MODULE Spec2Model ----
(***************************************************************************)
(* Model of the cognitarium query engine                                   *)
(* (contracts/okp4-cognitarium/src/querier/engine.rs): the index scans     *)
(* opened by TriplePatternIterator::make_state_iter, the compiled pipeline *)
(* of eval_node (triple pattern, for-loop join, cartesian-product join,    *)
(* skip, limit) and the pull protocol of its iterators.                    *)
(***************************************************************************)
EXTENDS Integers, Sequences, FiniteSets, TLC

VARIABLES
    storage,      \* the triple store the engine borrows: a set of entries
    pc,           \* position of the caller
    log,          \* storage accesses and pipeline events, in order
    filters,      \* make_state_iter: the filter tuple
    triple_iter,  \* make_state_iter: the scan it opened
    yielded,      \* make_state_iter: elements pulled from the scan so far
    plan,         \* eval_plan: the query plan
    iter,         \* eval_plan: the outermost iterator
    out,          \* eval_plan: elements pulled from the outermost iterator
    input_vars,   \* the closure of a TriplePattern node: the input frame (vars)
    namespaces,   \* the namespace store the engine borrows
    selection,    \* select: the selected variable names
    bindings,     \* select: name -> slot of the selected variables
    ns_cache,     \* SolutionsIterator: namespace key -> resolved string
    rows,         \* select: rows collected so far
    response,     \* select: what it returned
    merge_self,   \* merge_with: the frame it is called on
    merge_other,  \* merge_with: its argument
    merged,       \* merge_with: what it returned
    parse_error,  \* error.rs: the error a parser of RDF text gave
    rdf_error     \* error.rs: the RDFParseError it was converted to

select_vars == <<namespaces, selection, bindings, ns_cache, rows, response>>

merge_vars == <<merge_self, merge_other, merged>>

error_vars == <<parse_error, rdf_error>>

vars ==
    <<storage, pc, log, filters, triple_iter, yielded, plan, iter, out,
      input_vars, select_vars, merge_vars, error_vars>>

(***************************************************************************)
(* Bounds                                                                  *)
(***************************************************************************)
MaxStore == 2     \* largest number of entries in the store
MaxFirst == 2     \* largest `first` of a Skip or Limit node
MaxMessage == 3   \* longest text of a parse error

(***************************************************************************)
(* Option and Result                                                       *)
(***************************************************************************)
None == [k |-> "none"]
Some(x) == [k |-> "some", v |-> x]
Ok(x) == [k |-> "ok", v |-> x]
Err(e) == [k |-> "err", e |-> e]

IsSome(o) == o.k = "some"
IsOk(r) == r.k = "ok"
IsErr(r) == r.k = "err"

(***************************************************************************)
(* Terms and triples (state.rs: Subject, Predicate, Object, Triple)        *)
(***************************************************************************)
Named(n) == [t |-> "named", id |-> n]
Blank(n) == [t |-> "blank", id |-> n]
Literal(n) == [t |-> "literal", id |-> n]

Triple(s, p, o) == [subject |-> s, predicate |-> p, object |-> o]

SubjectTerms == {Named(1), Blank(1)}
PredicateTerms == {Named(2), Named(3)}
ObjectTerms == {Named(1), Literal(1)}

TripleUniverse ==
    {Triple(s, p, o) : s \in SubjectTerms, p \in PredicateTerms, o \in ObjectTerms}

\* A stored entry: the triple its key encodes, and whether its stored value
\* can be read back (a value that cannot yields an error element in a scan).
Entries == [triple : TripleUniverse, ok : BOOLEAN]

Stores ==
    {st \in SUBSET Entries :
        /\ Cardinality(st) <= MaxStore
        /\ \A e, f \in st : e.triple = f.triple => e = f}

(***************************************************************************)
(* Keys of the two indexes (state.rs: triples())                           *)
(***************************************************************************)
\* Node::key, Subject::key: a blank node's key sorts before a named node's.
PredicateKey(p) == p.id
SubjectKey(s) == IF s.t = "blank" THEN s.id ELSE 10 + s.id

\* Object::as_hash: injective on the objects of the model, and not monotonic.
ObjectCode(o) ==
    (CASE o.t = "named" -> 0 [] o.t = "blank" -> 1 [] o.t = "literal" -> 2) * 4 + o.id
ObjectHash(o) == (7 * ObjectCode(o) + 3) % 13

PrimaryKey(t) ==
    <<ObjectHash(t.object), PredicateKey(t.predicate), SubjectKey(t.subject)>>
SecondaryKey(t) ==
    <<SubjectKey(t.subject), PredicateKey(t.predicate)>> \o PrimaryKey(t)

IndexKey(index, t) == IF index = "primary" THEN PrimaryKey(t) ELSE SecondaryKey(t)

\* Byte-wise order of two keys of the same index.
LexLess(a, b) ==
    \E i \in 1..Len(a) :
        /\ a[i] < b[i]
        /\ \A j \in 1..(i - 1) : a[j] = b[j]

\* Prefix::range(storage, None, None, Order::Ascending): the entries whose key
\* starts with `prefix`, in ascending key order of the index.
RECURSIVE Ascending(_, _)
Ascending(S, index) ==
    IF S = {} THEN <<>>
    ELSE LET m == CHOOSE e \in S :
                    \A f \in S \ {e} :
                        LexLess(IndexKey(index, e.triple), IndexKey(index, f.triple))
         IN <<m>> \o Ascending(S \ {m}, index)

Range(st, index, prefix) ==
    Ascending({e \in st : SubSeq(IndexKey(index, e.triple), 1, Len(prefix)) = prefix},
              index)

\* Map::load: the value at a full primary key.
Load(st, key) ==
    IF \E e \in st : PrimaryKey(e.triple) = key
    THEN LET e == CHOOSE e \in st : PrimaryKey(e.triple) = key
         IN IF e.ok THEN Ok(e.triple) ELSE Err("ParseErr")
    ELSE Err("NotFound")

\* One element of a range: the triple, or the error of reading it back.
Item(e) == IF e.ok THEN Ok(e.triple) ELSE Err("ParseErr")

(***************************************************************************)
(* TriplePatternIterator::make_state_iter                                  *)
(***************************************************************************)
Once(item) == [kind |-> "once", item |-> Some(item)]
Scan(index, prefix, pending, post) ==
    [kind |-> "range", index |-> index, prefix |-> prefix, pending |-> pending,
     post |-> post]

\* prefix(..) / sub_prefix(..) of an index, then range(storage, None, None,
\* Order::Ascending), with the filter closure of the arm.
PrefixRange(st, index, prefix, post) == Scan(index, prefix, Range(st, index, prefix), post)

NoPost == [part |-> "none"]
PostObject(o) == [part |-> "object", term |-> o]
PostPredicate(p) == [part |-> "predicate", term |-> p]

\* A choice that takes the secondary sub-prefix when subject and predicate
\* are bound.
Strategy_subject_predicate_as_subject(f) ==
    LET s == IsSome(f[1])
        p == IsSome(f[2])
        o == IsSome(f[3])
    IN CASE s /\ p /\ o -> "point_lookup"
         [] s /\ p /\ ~o -> "secondary_sub_prefix"
         [] ~s /\ p /\ o -> "primary_prefix"
         [] s /\ ~p /\ o -> "secondary_sub_prefix_filter_object"
         [] s /\ ~p /\ ~o -> "secondary_sub_prefix"
         [] ~s /\ p /\ ~o -> "full_scan_filter_predicate"
         [] ~s /\ ~p /\ o -> "primary_sub_prefix"
         [] ~s /\ ~p /\ ~o -> "full_scan"

\* A choice that scans the primary prefix of object and predicate when all
\* three parts are bound.
Strategy_all_bound_as_prefix(f) ==
    LET s == IsSome(f[1])
        p == IsSome(f[2])
        o == IsSome(f[3])
    IN CASE s /\ p /\ o -> "primary_prefix"
         [] s /\ p /\ ~o -> "secondary_prefix"
         [] ~s /\ p /\ o -> "primary_prefix"
         [] s /\ ~p /\ o -> "secondary_sub_prefix_filter_object"
         [] s /\ ~p /\ ~o -> "secondary_sub_prefix"
         [] ~s /\ p /\ ~o -> "full_scan_filter_predicate"
         [] ~s /\ ~p /\ o -> "primary_sub_prefix"
         [] ~s /\ ~p /\ ~o -> "full_scan"

\* The name of the access strategy chosen for a filter tuple.
Strategy(f) ==
    LET s == IsSome(f[1])
        p == IsSome(f[2])
        o == IsSome(f[3])
    IN CASE s /\ p /\ o -> "point_lookup"
         [] s /\ p /\ ~o -> "secondary_prefix"
         [] ~s /\ p /\ o -> "primary_prefix"
         [] s /\ ~p /\ o -> "secondary_sub_prefix_filter_object"
         [] s /\ ~p /\ ~o -> "secondary_sub_prefix"
         [] ~s /\ p /\ ~o -> "full_scan_filter_predicate"
         [] ~s /\ ~p /\ o -> "primary_sub_prefix"
         [] ~s /\ ~p /\ ~o -> "full_scan"

make_state_iter(st, f) ==
    LET strategy == Strategy(f)
    IN CASE strategy = "point_lookup" ->
              Once(Load(st, <<ObjectHash(f[3].v), PredicateKey(f[2].v), SubjectKey(f[1].v)>>))
         [] strategy = "secondary_prefix" ->
              PrefixRange(st, "secondary", <<SubjectKey(f[1].v), PredicateKey(f[2].v)>>,
                          NoPost)
         [] strategy = "primary_prefix" ->
              PrefixRange(st, "primary", <<ObjectHash(f[3].v), PredicateKey(f[2].v)>>,
                          NoPost)
         [] strategy = "secondary_sub_prefix_filter_object" ->
              PrefixRange(st, "secondary", <<SubjectKey(f[1].v)>>, PostObject(f[3].v))
         [] strategy = "secondary_sub_prefix" ->
              PrefixRange(st, "secondary", <<SubjectKey(f[1].v)>>, NoPost)
         [] strategy = "full_scan_filter_predicate" ->
              PrefixRange(st, "primary", <<>>, PostPredicate(f[2].v))
         [] strategy = "primary_sub_prefix" ->
              PrefixRange(st, "primary", <<ObjectHash(f[3].v)>>, NoPost)
         [] strategy = "full_scan" ->
              PrefixRange(st, "primary", <<>>, NoPost)

\* A storage access and the kind of its result ("ok", "err", or "none" at
\* the end of a range).
StorageEvent(ev, res) == [ev |-> ev, res |-> res]

\* The storage access make_state_iter performs before it returns: the point
\* lookup is an argument of iter::once, a range is opened but not read.
make_state_iter_access(st, f) ==
    IF Strategy(f) = "point_lookup"
    THEN <<StorageEvent("storage_load", make_state_iter(st, f).item.v.k)>>
    ELSE <<StorageEvent("storage_range", "ok")>>

\* A post-filter that keeps every element.
PostFilterKeepsAll(post, res) == TRUE

\* A post-filter that drops the errors of the range.
PostFilter_drops_errors(post, res) ==
    CASE post.part = "none" -> TRUE
      [] post.part = "object" -> IF IsOk(res) THEN res.v.object = post.term ELSE FALSE
      [] post.part = "predicate" -> IF IsOk(res) THEN res.v.predicate = post.term ELSE FALSE

\* A post-filter that keeps the triples that differ from the filter.
PostFilter_keeps_unequal(post, res) ==
    CASE post.part = "none" -> TRUE
      [] post.part = "object" -> IF IsOk(res) THEN res.v.object # post.term ELSE TRUE
      [] post.part = "predicate" -> IF IsOk(res) THEN res.v.predicate # post.term ELSE TRUE

\* The closure of a post-filtering arm: errors pass, triples pass when equal.
PostFilter(post, res) ==
    CASE post.part = "none" -> TRUE
      [] post.part = "object" -> IF IsOk(res) THEN res.v.object = post.term ELSE TRUE
      [] post.part = "predicate" -> IF IsOk(res) THEN res.v.predicate = post.term ELSE TRUE

\* next() of the scan: [res, it, ev]. Every next() of the underlying range is
\* a storage access, whether the post-filter keeps the element or not.
RECURSIVE RangeNext(_, _)
RangeNext(it, ev) ==
    IF it.pending = <<>>
    THEN [res |-> None, it |-> it, ev |-> Append(ev, StorageEvent("storage_next", "none"))]
    ELSE LET res == Item(Head(it.pending))
             rest == [it EXCEPT !.pending = Tail(it.pending)]
             ev2 == Append(ev, StorageEvent("storage_next", res.k))
         IN IF PostFilter(it.post, res)
            THEN [res |-> Some(res), it |-> rest, ev |-> ev2]
            ELSE RangeNext(rest, ev2)

Empty == [kind |-> "empty"]

TripleIterNext(it) ==
    CASE it.kind = "empty" -> [res |-> None, it |-> it, ev |-> <<>>]
      [] it.kind = "once" -> [res |-> it.item, it |-> [it EXCEPT !.item = None], ev |-> <<>>]
      [] it.kind = "range" -> RangeNext(it, <<>>)

(***************************************************************************)
(* Query plans (plan.rs: PatternValue, QueryNode, QueryPlan)               *)
(***************************************************************************)
Constant(t) == [pv |-> "constant", term |-> t]
Variable(i) == [pv |-> "variable", slot |-> i]

TriplePattern(s, p, o) ==
    [node |-> "TriplePattern", subject |-> s, predicate |-> p, object |-> o]
CartesianProductJoin(l, r) == [node |-> "CartesianProductJoin", left |-> l, right |-> r]
ForLoopJoin(l, r) == [node |-> "ForLoopJoin", left |-> l, right |-> r]
Skip(c, n) == [node |-> "Skip", child |-> c, first |-> n]
Limit(c, n) == [node |-> "Limit", child |-> c, first |-> n]

QueryPlan(entrypoint, variables) == [entrypoint |-> entrypoint, variables |-> variables]

(***************************************************************************)
(* Binding frames (variable.rs: ResolvedVariable, ResolvedVariables)       *)
(***************************************************************************)
AsSubject(t) == [as |-> "Subject", term |-> t]
AsPredicate(t) == [as |-> "Predicate", term |-> t]
AsObject(t) == [as |-> "Object", term |-> t]

with_capacity(cap) == [i \in 0..(cap - 1) |-> None]
get(variables, index) == IF index \in DOMAIN variables THEN variables[index] ELSE None
set(variables, index, var) == [variables EXCEPT ![index] = Some(var)]

\* ResolvedVariable::as_subject / as_predicate / as_object: the projection of
\* a bound value to the type of a triple part, None when it has none.
as_subject(var) ==
    CASE var.as = "Subject" -> Some(var.term)
      [] var.as = "Predicate" -> Some(var.term)
      [] var.as = "Object" -> IF var.term.t = "literal" THEN None ELSE Some(var.term)

as_predicate(var) == IF var.term.t = "named" THEN Some(var.term) ELSE None

as_object(var) == Some(var.term)

\* ResolvedVariables::merge_with: None when a slot bound in both differs.
\* A merge that keeps the value of the frame it is called on where the two
\* frames differ.
merge_with_keeps_own_value(a, b) ==
    Some([i \in DOMAIN a |-> IF IsSome(a[i]) THEN a[i] ELSE b[i]])

merge_with(a, b) ==
    IF \E i \in DOMAIN a : IsSome(a[i]) /\ IsSome(b[i]) /\ a[i] # b[i]
    THEN None
    ELSE Some([i \in DOMAIN a |-> IF IsSome(a[i]) THEN a[i] ELSE b[i]])

(***************************************************************************)
(* TriplePatternIterator                                                   *)
(***************************************************************************)
MapFn(part, var) ==
    CASE part = "subject" -> as_subject(var)
      [] part = "predicate" -> as_predicate(var)
      [] part = "object" -> as_object(var)

\* A resolver that records a bound variable as an output binding too.
resolve_pattern_part_rebinds_bound(pattern_part, part, input) ==
    IF pattern_part.pv = "constant"
    THEN Some([filter |-> Some(pattern_part.term), bind |-> None])
    ELSE LET var == get(input, pattern_part.slot)
         IN IF IsSome(var)
            THEN LET m == MapFn(part, var.v)
                 IN IF IsSome(m)
                    THEN Some([filter |-> m, bind |-> Some(pattern_part.slot)])
                    ELSE None
            ELSE Some([filter |-> None, bind |-> Some(pattern_part.slot)])

\* Some([filter, bind]) or None.
resolve_pattern_part(pattern_part, part, input) ==
    IF pattern_part.pv = "constant"
    THEN Some([filter |-> Some(pattern_part.term), bind |-> None])
    ELSE LET var == get(input, pattern_part.slot)
         IN IF IsSome(var)
            THEN LET m == MapFn(part, var.v)
                 IN IF IsSome(m) THEN Some([filter |-> m, bind |-> None]) ELSE None
            ELSE Some([filter |-> None, bind |-> Some(pattern_part.slot)])

\* A resolution that scans without a filter for a part that failed.
compute_iter_io_ignores_failed_part(input, subject, predicate, object) ==
    LET free == Some([filter |-> None, bind |-> None])
        rs == resolve_pattern_part(subject, "subject", input)
        rp == resolve_pattern_part(predicate, "predicate", input)
        ro == resolve_pattern_part(object, "object", input)
        s == IF IsSome(rs) THEN rs ELSE free
        p == IF IsSome(rp) THEN rp ELSE free
        o == IF IsSome(ro) THEN ro ELSE free
    IN Some([filters |-> <<s.v.filter, p.v.filter, o.v.filter>>,
             bindings |-> <<s.v.bind, p.v.bind, o.v.bind>>])

\* Some([filters, bindings]) or None.
compute_iter_io(input, subject, predicate, object) ==
    LET s == resolve_pattern_part(subject, "subject", input)
        p == resolve_pattern_part(predicate, "predicate", input)
        o == resolve_pattern_part(object, "object", input)
    IN IF IsSome(s) /\ IsSome(p) /\ IsSome(o)
       THEN Some([filters |-> <<s.v.filter, p.v.filter, o.v.filter>>,
                  bindings |-> <<s.v.bind, p.v.bind, o.v.bind>>])
       ELSE None

\* TriplePatternIterator::new: [it, ev].
TriplePatternIterator_new(st, path, input, subject, predicate, object) ==
    LET io == compute_iter_io(input, subject, predicate, object)
    IN IF IsSome(io)
       THEN [it |-> [kind |-> "TriplePatternIterator", path |-> path, input |-> input,
                     output_bindings |-> io.v.bindings,
                     triple_iter |-> make_state_iter(st, io.v.filters)],
             ev |-> make_state_iter_access(st, io.v.filters)]
       ELSE [it |-> [kind |-> "TriplePatternIterator", path |-> path, input |-> input,
                     output_bindings |-> <<None, None, None>>,
                     triple_iter |-> Empty],
             ev |-> <<>>]

\* A frame that takes the object of the triple for the subject slot.
BindTriple_subject_from_object(input, output_bindings, triple) ==
    LET v1 == IF IsSome(output_bindings[1])
              THEN set(input, output_bindings[1].v, AsObject(triple.object))
              ELSE input
        v2 == IF IsSome(output_bindings[2])
              THEN set(v1, output_bindings[2].v, AsPredicate(triple.predicate))
              ELSE v1
    IN IF IsSome(output_bindings[3])
       THEN set(v2, output_bindings[3].v, AsObject(triple.object))
       ELSE v2

\* A frame built from the unbound frame instead of a clone of the input.
BindTriple_from_unbound_frame(input, output_bindings, triple) ==
    LET v0 == [slot \in DOMAIN input |-> None]
        v1 == IF IsSome(output_bindings[1])
              THEN set(v0, output_bindings[1].v, AsSubject(triple.subject))
              ELSE v0
        v2 == IF IsSome(output_bindings[2])
              THEN set(v1, output_bindings[2].v, AsPredicate(triple.predicate))
              ELSE v1
    IN IF IsSome(output_bindings[3])
       THEN set(v2, output_bindings[3].v, AsObject(triple.object))
       ELSE v2

\* The frame a scanned triple extends the input frame to.
BindTriple(input, output_bindings, triple) ==
    LET v1 == IF IsSome(output_bindings[1])
              THEN set(input, output_bindings[1].v, AsSubject(triple.subject))
              ELSE input
        v2 == IF IsSome(output_bindings[2])
              THEN set(v1, output_bindings[2].v, AsPredicate(triple.predicate))
              ELSE v1
    IN IF IsSome(output_bindings[3])
       THEN set(v2, output_bindings[3].v, AsObject(triple.object))
       ELSE v2

\* A next() that ends the scan after it returned an error.
TriplePatternIterator_next_fused_on_error(it) ==
    LET r == TripleIterNext(it.triple_iter)
    IN [res |-> IF IsSome(r.res) /\ IsOk(r.res.v)
                THEN Some(Ok(BindTriple(it.input, it.output_bindings, r.res.v.v)))
                ELSE r.res,
        it |-> [it EXCEPT !.triple_iter = IF IsSome(r.res) /\ IsErr(r.res.v)
                                          THEN Empty ELSE r.it],
        ev |-> r.ev]

TriplePatternIterator_next(it) ==
    LET r == TripleIterNext(it.triple_iter)
    IN [res |-> IF IsSome(r.res) /\ IsOk(r.res.v)
                THEN Some(Ok(BindTriple(it.input, it.output_bindings, r.res.v.v)))
                ELSE r.res,
        it |-> [it EXCEPT !.triple_iter = r.it],
        ev |-> r.ev]

(***************************************************************************)
(* The compiled pipeline: eval_node and the iterators' next()              *)
(***************************************************************************)
\* Every recursive call of the pipeline goes through Dispatch: a request is
\* either the call of the closure eval_node built for a node, or next() on
\* an iterator.
RECURSIVE Dispatch(_, _)

\* eval_node(st, node, path, frame): the closure eval_node builds for `node`
\* (the node at `path` of the plan), applied to the input frame `frame`
\* (vars): [it, ev], the iterator and the events of the call.
eval_node(st, node, path, frame) ==
    Dispatch(st, [op |-> "eval_node", node |-> node, path |-> path, frame |-> frame])

\* next() of a pipeline iterator: [res, it, ev].
IterNext(st, it) == Dispatch(st, [op |-> "next", it |-> it])

\* Iterator::collect on a pipeline iterator: [items, it, ev].
RECURSIVE Collect(_, _, _, _)
RECURSIVE ForLoopJoinIterator_next(_, _, _)
RECURSIVE CartesianProductJoinIterator_next(_, _, _)
RECURSIVE AdvanceBy(_, _, _, _)

InvokeEvent(path, frame) == [ev |-> "invoke", node |-> path, input |-> frame]
YieldEvent(path, res) ==
    [ev |-> "yield", node |-> path,
     res |-> IF IsSome(res) THEN res.v.k ELSE "none"]

Collect(st, it, items, ev) ==
    LET r == IterNext(st, it)
    IN IF IsSome(r.res)
       THEN Collect(st, r.it, Append(items, r.res.v), ev \o r.ev)
       ELSE [items |-> items, it |-> r.it, ev |-> ev \o r.ev]

\* filter_map of the cartesian-product closure: the Ok frames, and the errors
\* pushed to buffered_errors, each in the order met.
RightValues(items) ==
    LET oks == SelectSeq(items, IsOk) IN [i \in 1..Len(oks) |-> oks[i].v]
RightErrors(items) == SelectSeq(items, IsErr)

\* A join that forgets the errors met while materializing.
CartesianProductJoinIterator_new_empty_buffer(path, values, upstream_iter, buffer) ==
    [kind |-> "CartesianProductJoinIterator", path |-> path, values |-> values,
     upstream_iter |-> upstream_iter, buffer |-> <<>>]

CartesianProductJoinIterator_new(path, values, upstream_iter, buffer) ==
    [kind |-> "CartesianProductJoinIterator", path |-> path, values |-> values,
     upstream_iter |-> upstream_iter, buffer |-> buffer]

ForLoopJoinIterator_new(path, left, right) ==
    [kind |-> "ForLoopJoinIterator", path |-> path, left |-> left, right |-> right,
     current |-> Empty]

\* A closure that evaluates the right sub-plan from a fresh frame.
CartesianProductJoin_closure_fresh_frame(st, node, path, frame) ==
    LET r == eval_node(st, node.right, Append(path, "right"),
                       [i \in DOMAIN frame |-> None])
        c == Collect(st, r.it, <<>>, <<>>)
        l == eval_node(st, node.left, Append(path, "left"), frame)
    IN [it |-> CartesianProductJoinIterator_new(path, RightValues(c.items), l.it,
                                                RightErrors(c.items)),
        ev |-> r.ev \o c.ev \o l.ev]

\* The closure of a CartesianProductJoin node: right(vars.clone()) is
\* collected first, then left(vars) is called.
CartesianProductJoin_closure(st, node, path, frame) ==
    LET r == eval_node(st, node.right, Append(path, "right"), frame)
        c == Collect(st, r.it, <<>>, <<>>)
        l == eval_node(st, node.left, Append(path, "left"), frame)
    IN [it |-> CartesianProductJoinIterator_new(path, RightValues(c.items), l.it,
                                                RightErrors(c.items)),
        ev |-> r.ev \o c.ev \o l.ev]

\* A closure that already pulls the left pipeline once.
ForLoopJoin_closure_pulls_left(st, node, path, frame) ==
    LET l == eval_node(st, node.left, Append(path, "left"), frame)
        n == IterNext(st, l.it)
    IN [it |-> ForLoopJoinIterator_new(path, n.it, node.right), ev |-> l.ev \o n.ev]

\* The closure of a ForLoopJoin node: left(vars) is called, right is kept.
ForLoopJoin_closure(st, node, path, frame) ==
    LET l == eval_node(st, node.left, Append(path, "left"), frame)
    IN [it |-> ForLoopJoinIterator_new(path, l.it, node.right), ev |-> l.ev]

\* The match of eval_node, applied to the input frame.
QueryNode_closure(st, node, path, frame) ==
    LET r == CASE node.node = "TriplePattern" ->
                    TriplePatternIterator_new(st, path, frame, node.subject,
                                              node.predicate, node.object)
               [] node.node = "CartesianProductJoin" ->
                    CartesianProductJoin_closure(st, node, path, frame)
               [] node.node = "ForLoopJoin" ->
                    ForLoopJoin_closure(st, node, path, frame)
               [] node.node = "Skip" ->
                    LET u == eval_node(st, node.child, Append(path, "child"), frame)
                    IN [it |-> [kind |-> "Skip", path |-> path, iter |-> u.it,
                                n |-> node.first],
                        ev |-> u.ev]
               [] node.node = "Limit" ->
                    LET u == eval_node(st, node.child, Append(path, "child"), frame)
                    IN [it |-> [kind |-> "Take", path |-> path, iter |-> u.it,
                                n |-> node.first],
                        ev |-> u.ev]
    IN [it |-> r.it, ev |-> <<InvokeEvent(path, frame)>> \o r.ev]

\* A current that drops a left error.
ForLoopCurrent_drops_error(st, it, v) ==
    IF IsOk(v)
    THEN eval_node(st, it.right, Append(it.path, "right"), v.v)
    ELSE [it |-> Empty, ev |-> <<>>]

\* self.current of a for-loop join after the left pipeline yielded `v`:
\* [it, ev].
ForLoopCurrent(st, it, v) ==
    IF IsOk(v)
    THEN eval_node(st, it.right, Append(it.path, "right"), v.v)
    ELSE [it |-> Once(v), ev |-> <<>>]

\* A next() that keeps only the first element of each inner sequence.
ForLoopJoinIterator_next_first_only(st, it, ev) ==
    LET c == IterNext(st, it.current)
    IN IF IsSome(c.res)
       THEN [res |-> c.res, it |-> [it EXCEPT !.current = Empty], ev |-> ev \o c.ev]
       ELSE LET l == IterNext(st, it.left)
            IN IF ~IsSome(l.res)
               THEN [res |-> None,
                     it |-> [it EXCEPT !.current = c.it, !.left = l.it],
                     ev |-> ev \o c.ev \o l.ev]
               ELSE LET n == ForLoopCurrent(st, it, l.res.v)
                    IN ForLoopJoinIterator_next(
                           st,
                           [it EXCEPT !.current = n.it, !.left = l.it],
                           ev \o c.ev \o l.ev \o n.ev)

ForLoopJoinIterator_next(st, it, ev) ==
    LET c == IterNext(st, it.current)
    IN IF IsSome(c.res)
       THEN [res |-> c.res, it |-> [it EXCEPT !.current = c.it], ev |-> ev \o c.ev]
       ELSE LET l == IterNext(st, it.left)
            IN IF ~IsSome(l.res)
               THEN [res |-> None,
                     it |-> [it EXCEPT !.current = c.it, !.left = l.it],
                     ev |-> ev \o c.ev \o l.ev]
               ELSE LET n == ForLoopCurrent(st, it, l.res.v)
                    IN ForLoopJoinIterator_next(
                           st,
                           [it EXCEPT !.current = n.it, !.left = l.it],
                           ev \o c.ev \o l.ev \o n.ev)

RECURSIVE CartesianMerge(_, _)

\* A merge loop that turns an incompatible pair into an error.
CartesianMerge_error_on_conflict(val, values) ==
    IF values = <<>> THEN <<>>
    ELSE LET m == merge_with(val, Head(values))
         IN (IF IsSome(m) THEN <<Ok(m.v)>> ELSE <<Err("Conflict")>>)
                \o CartesianMerge(val, Tail(values))

\* A merge loop that stops at the first compatible pair.
CartesianMerge_first_only(val, values) ==
    IF values = <<>> THEN <<>>
    ELSE LET m == merge_with(val, Head(values))
         IN IF IsSome(m) THEN <<Ok(m.v)>> ELSE CartesianMerge(val, Tail(values))

\* What one Ok frame of the left pipeline pushes to the buffer.
CartesianMerge(val, values) ==
    IF values = <<>> THEN <<>>
    ELSE LET m == merge_with(val, Head(values))
         IN (IF IsSome(m) THEN <<Ok(m.v)>> ELSE <<>>)
                \o CartesianMerge(val, Tail(values))

\* A next() that returns the front of the buffer and leaves it there.
CartesianProductJoinIterator_next_keeps_front(st, it, ev) ==
    IF it.buffer # <<>>
    THEN [res |-> Some(Head(it.buffer)), it |-> it, ev |-> ev]
    ELSE LET u == IterNext(st, it.upstream_iter)
         IN IF ~IsSome(u.res)
            THEN [res |-> None, it |-> [it EXCEPT !.upstream_iter = u.it],
                  ev |-> ev \o u.ev]
            ELSE CartesianProductJoinIterator_next(
                     st,
                     [it EXCEPT !.upstream_iter = u.it,
                                !.buffer = IF IsErr(u.res.v)
                                           THEN Append(it.buffer, u.res.v)
                                           ELSE it.buffer \o CartesianMerge(u.res.v.v, it.values)],
                     ev \o u.ev)

CartesianProductJoinIterator_next(st, it, ev) ==
    IF it.buffer # <<>>
    THEN [res |-> Some(Head(it.buffer)),
          it |-> [it EXCEPT !.buffer = Tail(it.buffer)],
          ev |-> ev]
    ELSE LET u == IterNext(st, it.upstream_iter)
         IN IF ~IsSome(u.res)
            THEN [res |-> None, it |-> [it EXCEPT !.upstream_iter = u.it],
                  ev |-> ev \o u.ev]
            ELSE CartesianProductJoinIterator_next(
                     st,
                     [it EXCEPT !.upstream_iter = u.it,
                                !.buffer = IF IsErr(u.res.v)
                                           THEN Append(it.buffer, u.res.v)
                                           ELSE it.buffer \o CartesianMerge(u.res.v.v, it.values)],
                     ev \o u.ev)

\* An advance_by that counts solutions only.
AdvanceBy_solutions_only(st, it, n, ev) ==
    IF n = 0 THEN [ended |-> FALSE, it |-> it, ev |-> ev]
    ELSE LET r == IterNext(st, it)
         IN IF IsSome(r.res)
            THEN AdvanceBy(st, r.it, IF IsErr(r.res.v) THEN n ELSE n - 1, ev \o r.ev)
            ELSE [ended |-> TRUE, it |-> r.it, ev |-> ev \o r.ev]

\* Iterator::advance_by(n): up to n calls of next(), stopping at None:
\* [ended, it, ev].
AdvanceBy(st, it, n, ev) ==
    IF n = 0 THEN [ended |-> FALSE, it |-> it, ev |-> ev]
    ELSE LET r == IterNext(st, it)
         IN IF IsSome(r.res)
            THEN AdvanceBy(st, r.it, n - 1, ev \o r.ev)
            ELSE [ended |-> TRUE, it |-> r.it, ev |-> ev \o r.ev]

\* A skip that discards one element too few.
Skip_next_off_by_one(st, it) ==
    IF it.n > 0
    THEN LET a == AdvanceBy(st, it.iter, it.n - 1, <<>>)
         IN IF a.ended
            THEN [res |-> None, it |-> [it EXCEPT !.iter = a.it, !.n = 0], ev |-> a.ev]
            ELSE LET r == IterNext(st, a.it)
                 IN [res |-> r.res, it |-> [it EXCEPT !.iter = r.it, !.n = 0],
                     ev |-> a.ev \o r.ev]
    ELSE LET r == IterNext(st, it.iter)
         IN [res |-> r.res, it |-> [it EXCEPT !.iter = r.it], ev |-> r.ev]

\* Skip::next: the first call discards n elements (Iterator::nth).
Skip_next(st, it) ==
    IF it.n > 0
    THEN LET a == AdvanceBy(st, it.iter, it.n, <<>>)
         IN IF a.ended
            THEN [res |-> None, it |-> [it EXCEPT !.iter = a.it, !.n = 0], ev |-> a.ev]
            ELSE LET r == IterNext(st, a.it)
                 IN [res |-> r.res, it |-> [it EXCEPT !.iter = r.it, !.n = 0],
                     ev |-> a.ev \o r.ev]
    ELSE LET r == IterNext(st, it.iter)
         IN [res |-> r.res, it |-> [it EXCEPT !.iter = r.it], ev |-> r.ev]

\* A take that does not count the errors it passes.
Take_next_errors_uncounted(st, it) ==
    IF it.n # 0
    THEN LET r == IterNext(st, it.iter)
         IN [res |-> r.res,
             it |-> [it EXCEPT !.iter = r.it,
                               !.n = IF IsSome(r.res) /\ IsErr(r.res.v)
                                     THEN it.n ELSE it.n - 1],
             ev |-> r.ev]
    ELSE [res |-> None, it |-> it, ev |-> <<>>]

\* A next() that pulls the child before it looks at the count.
Take_next_pulls_before_counting(st, it) ==
    LET r == IterNext(st, it.iter)
    IN IF it.n # 0
       THEN [res |-> r.res, it |-> [it EXCEPT !.iter = r.it, !.n = it.n - 1], ev |-> r.ev]
       ELSE [res |-> None, it |-> [it EXCEPT !.iter = r.it], ev |-> r.ev]

\* Take::next.
Take_next(st, it) ==
    IF it.n # 0
    THEN LET r == IterNext(st, it.iter)
         IN [res |-> r.res, it |-> [it EXCEPT !.iter = r.it, !.n = it.n - 1], ev |-> r.ev]
    ELSE [res |-> None, it |-> it, ev |-> <<>>]

Iterator_next(st, it) ==
    IF it.kind \in {"empty", "once"}
    THEN TripleIterNext(it)
    ELSE LET r == CASE it.kind = "TriplePatternIterator" -> TriplePatternIterator_next(it)
                    [] it.kind = "ForLoopJoinIterator" ->
                         ForLoopJoinIterator_next(st, it, <<>>)
                    [] it.kind = "CartesianProductJoinIterator" ->
                         CartesianProductJoinIterator_next(st, it, <<>>)
                    [] it.kind = "Skip" -> Skip_next(st, it)
                    [] it.kind = "Take" -> Take_next(st, it)
         IN [res |-> r.res, it |-> r.it,
             ev |-> Append(r.ev, YieldEvent(it.path, r.res))]

Dispatch(st, req) ==
    IF req.op = "eval_node"
    THEN QueryNode_closure(st, req.node, req.path, req.frame)
    ELSE Iterator_next(st, req.it)

eval_plan(st, p) ==
    eval_node(st, p.entrypoint, <<>>, with_capacity(Len(p.variables)))

(***************************************************************************)
(* Specification of one scan: make_state_iter, then next() until None      *)
(***************************************************************************)
OptionOf(S) == {None} \cup {Some(x) : x \in S}

\* The keys of the namespace store of the model, and a store without records.
NsKeys == {0, 1}
NoNamespaces == [k \in NsKeys |-> None]

\* No select is running.
NoSelect ==
    /\ namespaces = NoNamespaces
    /\ selection = <<>>
    /\ bindings = <<>>
    /\ ns_cache = <<>>
    /\ rows = <<>>
    /\ response = None

\* No merge is under way.
NoMerge ==
    /\ merge_self = with_capacity(0)
    /\ merge_other = with_capacity(0)
    /\ merged = None

\* No parse error is being converted.
NoConversion ==
    /\ parse_error = None
    /\ rdf_error = None

FilterTuples == OptionOf(SubjectTerms) \X OptionOf(PredicateTerms) \X OptionOf(ObjectTerms)

ScanInit ==
    /\ storage \in Stores
    /\ filters \in FilterTuples
    /\ pc = "start"
    /\ log = <<>>
    /\ triple_iter = Empty
    /\ yielded = <<>>
    /\ plan = None
    /\ iter = Empty
    /\ out = <<>>
    /\ input_vars = with_capacity(0)
    /\ NoSelect
    /\ NoMerge
    /\ NoConversion

ScanOpen ==
    /\ pc = "start"
    /\ triple_iter' = make_state_iter(storage, filters)
    /\ log' = log \o make_state_iter_access(storage, filters)
    /\ pc' = "open"
    /\ UNCHANGED <<storage, filters, yielded, plan, iter, out, input_vars, select_vars, merge_vars, error_vars>>

ScanPull ==
    /\ pc = "open"
    /\ LET r == TripleIterNext(triple_iter)
       IN /\ triple_iter' = r.it
          /\ log' = log \o r.ev
          /\ IF IsSome(r.res)
             THEN yielded' = Append(yielded, r.res.v) /\ pc' = pc
             ELSE yielded' = yielded /\ pc' = "done"
    /\ UNCHANGED <<storage, filters, plan, iter, out, input_vars, select_vars, merge_vars, error_vars>>

ScanNext == ScanOpen \/ ScanPull

SpecScan == ScanInit /\ [][ScanNext]_vars

(***************************************************************************)
(* Specification of one query evaluation: eval_plan, then next() on the    *)
(* outermost iterator until None                                           *)
(***************************************************************************)
PlanVariables == <<"a", "b", "c", "d">>

PatternA == TriplePattern(Variable(0), Constant(Named(2)), Variable(1))
PatternB == TriplePattern(Variable(2), Variable(3), Constant(Named(1)))
PatternC == TriplePattern(Variable(1), Constant(Named(3)), Variable(2))
PatternD == TriplePattern(Constant(Named(1)), Constant(Named(2)), Constant(Named(1)))
PatternE == TriplePattern(Variable(0), Variable(1), Variable(2))
PatternG == TriplePattern(Variable(0), Variable(1), Variable(3))

Patterns == {PatternA, PatternB, PatternC, PatternD, PatternE}

Joins ==
    {CartesianProductJoin(l, r) : l \in Patterns, r \in Patterns}
        \cup {ForLoopJoin(l, r) : l \in Patterns, r \in Patterns}

Wrapped ==
    {PatternA, PatternE, CartesianProductJoin(PatternE, PatternD),
     CartesianProductJoin(PatternA, PatternB), ForLoopJoin(PatternA, PatternC)}

SkipsAndLimits ==
    {Skip(c, n) : c \in Wrapped, n \in 0..MaxFirst}
        \cup {Limit(c, n) : c \in Wrapped, n \in 0..MaxFirst}

Nested ==
    {ForLoopJoin(PatternA, CartesianProductJoin(PatternC, PatternB)),
     ForLoopJoin(CartesianProductJoin(PatternA, PatternD), PatternC),
     CartesianProductJoin(ForLoopJoin(PatternA, PatternC), PatternB),
     CartesianProductJoin(PatternA, ForLoopJoin(PatternE, PatternD)),
     ForLoopJoin(PatternE, CartesianProductJoin(PatternG, PatternD)),
     ForLoopJoin(PatternE, Limit(PatternB, 1)),
     ForLoopJoin(Skip(PatternE, 1), PatternD)}

\* A page of a stream: Limit over Skip.
Pages ==
    {Limit(Skip(c, n), m) :
        c \in {PatternE, CartesianProductJoin(PatternA, PatternB)},
        n \in 0..MaxFirst, m \in 0..MaxFirst}

Nodes == Patterns \cup Joins \cup SkipsAndLimits \cup Nested \cup Pages

Plans == {QueryPlan(n, PlanVariables) : n \in Nodes}

\* The stores a query is evaluated on: at most one entry is unreadable.
EvalStores == {st \in Stores : Cardinality({e \in st : ~e.ok}) <= 1}

Init ==
    /\ storage \in EvalStores
    /\ plan \in Plans
    /\ pc = "built"
    /\ log = <<>>
    /\ iter = Empty
    /\ out = <<>>
    /\ filters = <<None, None, None>>
    /\ triple_iter = Empty
    /\ yielded = <<>>
    /\ input_vars = with_capacity(0)
    /\ NoSelect
    /\ NoMerge
    /\ NoConversion

\* eval_plan: the compiled pipeline is invoked with the all-unbound frame.
EvalPlan ==
    /\ pc = "built"
    /\ LET r == eval_plan(storage, plan)
       IN iter' = r.it /\ log' = log \o r.ev
    /\ pc' = "invoked"
    /\ UNCHANGED <<storage, plan, out, filters, triple_iter, yielded, input_vars, select_vars, merge_vars, error_vars>>

\* The caller pulls one element from the outermost iterator.
Pull ==
    /\ pc \in {"invoked", "pulling"}
    /\ LET r == IterNext(storage, iter)
       IN /\ iter' = r.it
          /\ log' = log \o r.ev
          /\ IF IsSome(r.res)
             THEN out' = Append(out, r.res.v) /\ pc' = "pulling"
             ELSE out' = out /\ pc' = "done"
    /\ UNCHANGED <<storage, plan, filters, triple_iter, yielded, input_vars, select_vars, merge_vars, error_vars>>

Next == EvalPlan \/ Pull

Spec == Init /\ [][Next]_vars

(***************************************************************************)
(* Specification of one triple pattern: the closure of a TriplePattern     *)
(* node applied to an input frame, then next() until None                  *)
(***************************************************************************)
\* The values an upstream operator can have bound.
FrameValues ==
    {AsSubject(Blank(1)), AsPredicate(Named(2)), AsObject(Blank(1)), AsObject(Literal(1))}

\* The input frames: slots 0..2 hold at most two bound values.
InputFrames ==
    {f \in [0..(Len(PlanVariables) - 1) -> OptionOf(FrameValues)] :
        /\ f[Len(PlanVariables) - 1] = None
        /\ Cardinality({i \in DOMAIN f : IsSome(f[i])}) <= 2}

PatternNodes ==
    {TriplePattern(s, p, o) :
        s \in {Constant(Named(1)), Variable(0)},
        p \in {Constant(Named(2)), Variable(1)},
        o \in {Constant(Named(1)), Variable(2), Variable(0)}}

PatternTriples ==
    {Triple(Blank(1), Named(2), Named(1)), Triple(Blank(1), Named(3), Literal(1)),
     Triple(Named(1), Named(2), Literal(1)), Triple(Named(1), Named(2), Named(1))}

PatternStores == {st \in EvalStores : \A e \in st : e.triple \in PatternTriples}

PatternInit ==
    /\ storage \in PatternStores
    /\ plan \in {QueryPlan(n, PlanVariables) : n \in PatternNodes}
    /\ input_vars \in InputFrames
    /\ pc = "pattern"
    /\ log = <<>>
    /\ iter = Empty
    /\ out = <<>>
    /\ filters = <<None, None, None>>
    /\ triple_iter = Empty
    /\ yielded = <<>>
    /\ NoSelect
    /\ NoMerge
    /\ NoConversion

\* The closure of the TriplePattern node is called with the input frame:
\* TriplePatternIterator::new; the filter tuple it computed is recorded.
PatternInvoke ==
    /\ pc = "pattern"
    /\ LET node == plan.entrypoint
           r == eval_node(storage, node, <<>>, input_vars)
           io == compute_iter_io(input_vars, node.subject, node.predicate, node.object)
       IN /\ iter' = r.it
          /\ log' = log \o r.ev
          /\ filters' = IF IsSome(io) THEN io.v.filters ELSE filters
    /\ pc' = "invoked"
    /\ UNCHANGED <<storage, plan, out, triple_iter, yielded, input_vars, select_vars, merge_vars, error_vars>>

PatternNext == PatternInvoke \/ Pull

SpecPattern == PatternInit /\ [][PatternNext]_vars

(***************************************************************************)
(* Specification of one operator: the closure of a node of any kind        *)
(* applied to an input frame, then next() until None                       *)
(***************************************************************************)
OperandA == TriplePattern(Variable(0), Constant(Named(2)), Variable(2))
OperandB == TriplePattern(Variable(2), Variable(1), Constant(Literal(1)))

OperatorNodes ==
    {OperandA, OperandB,
     ForLoopJoin(OperandA, OperandB),
     CartesianProductJoin(OperandA, OperandB),
     CartesianProductJoin(OperandA,
                          TriplePattern(Variable(0), Variable(1), Constant(Literal(1)))),
     Skip(OperandA, 1),
     Limit(OperandA, 1),
     Limit(ForLoopJoin(OperandA, OperandB), 1)}

OperatorInit ==
    /\ storage \in PatternStores
    /\ plan \in {QueryPlan(n, PlanVariables) : n \in OperatorNodes}
    /\ input_vars \in InputFrames
    /\ pc = "operator"
    /\ log = <<>>
    /\ iter = Empty
    /\ out = <<>>
    /\ filters = <<None, None, None>>
    /\ triple_iter = Empty
    /\ yielded = <<>>
    /\ NoSelect
    /\ NoMerge
    /\ NoConversion

\* The closure eval_node built for the node is called with the input frame.
OperatorInvoke ==
    /\ pc = "operator"
    /\ LET r == eval_node(storage, plan.entrypoint, <<>>, input_vars)
       IN iter' = r.it /\ log' = log \o r.ev
    /\ pc' = "invoked"
    /\ UNCHANGED <<storage, plan, out, filters, triple_iter, yielded, input_vars, select_vars, merge_vars, error_vars>>

SpecOperator == OperatorInit /\ [][OperatorInvoke \/ Pull]_vars

(***************************************************************************)
(* Specification of one merge: ResolvedVariables::merge_with on two frames *)
(***************************************************************************)
\* The values of a slot: one term bound from two positions, and another
\* term.
MergeValues == {AsSubject(Named(1)), AsObject(Named(1)), AsObject(Literal(1))}

\* Frames of the capacity of the plan, the last slot unbound.
MergeFrames ==
    {f \in [0..(Len(PlanVariables) - 1) -> OptionOf(MergeValues)] :
        f[Len(PlanVariables) - 1] = None}

MergeInit ==
    /\ merge_self \in MergeFrames
    /\ merge_other \in MergeFrames
    /\ merged = None
    /\ pc = "merge"
    /\ storage = {}
    /\ plan = None
    /\ input_vars = with_capacity(0)
    /\ log = <<>>
    /\ iter = Empty
    /\ out = <<>>
    /\ filters = <<None, None, None>>
    /\ triple_iter = Empty
    /\ yielded = <<>>
    /\ NoSelect
    /\ NoConversion

\* v.merge_with(&other).
MergeCall ==
    /\ pc = "merge"
    /\ merged' = merge_with(merge_self, merge_other)
    /\ pc' = "merged"
    /\ UNCHANGED <<storage, plan, log, iter, out, filters, triple_iter, yielded,
                   input_vars, select_vars, merge_self, merge_other, error_vars>>

SpecMerge == MergeInit /\ [][MergeCall]_vars

(***************************************************************************)
(* error.rs: the conversions of parser errors to RDFParseError             *)
(***************************************************************************)
\* The texts of an error: strings of at most MaxMessage characters.
Messages == UNION {[1..n -> {"a", "b", "c"}] : n \in 0..MaxMessage}

\* rio_turtle::TurtleError and rio_xml::RdfXmlError, by the text they display.
TurtleError(message) == [parser |-> "turtle", message |-> message]
RdfXmlError(message) == [parser |-> "xml", message |-> message]
to_string(value) == value.message

\* RDFParseError::XML and RDFParseError::Turtle.
XML(message) == [variant |-> "XML", message |-> message]
Turtle(message) == [variant |-> "Turtle", message |-> message]

\* impl From<RdfXmlError> for RDFParseError.
From_RdfXmlError(value) == XML(to_string(value))

\* impl From<TurtleError> for RDFParseError.
From_TurtleError(value) == XML(to_string(value))

ConvertInit ==
    /\ parse_error \in {TurtleError(m) : m \in Messages} \cup {RdfXmlError(m) : m \in Messages}
    /\ rdf_error = None
    /\ pc = "parse_error"
    /\ storage = {}
    /\ plan = None
    /\ input_vars = with_capacity(0)
    /\ log = <<>>
    /\ iter = Empty
    /\ out = <<>>
    /\ filters = <<None, None, None>>
    /\ triple_iter = Empty
    /\ yielded = <<>>
    /\ NoSelect
    /\ NoMerge

\* A TurtleError is converted with `?` or into().
ConvertTurtleError ==
    /\ pc = "parse_error"
    /\ parse_error.parser = "turtle"
    /\ rdf_error' = Some(From_TurtleError(parse_error))
    /\ pc' = "converted"
    /\ UNCHANGED <<storage, plan, log, iter, out, filters, triple_iter, yielded,
                   input_vars, select_vars, merge_vars, parse_error>>

\* An RdfXmlError is converted with `?` or into().
ConvertRdfXmlError ==
    /\ pc = "parse_error"
    /\ parse_error.parser = "xml"
    /\ rdf_error' = Some(From_RdfXmlError(parse_error))
    /\ pc' = "converted"
    /\ UNCHANGED <<storage, plan, log, iter, out, filters, triple_iter, yielded,
                   input_vars, select_vars, merge_vars, parse_error>>

SpecConvert == ConvertInit /\ [][ConvertTurtleError \/ ConvertRdfXmlError]_vars

(***************************************************************************)
(* select: the selection-to-slot table, SolutionsIterator, the response    *)
(***************************************************************************)
\* QueryPlan::get_var_index: the slot of a variable name, None when the plan
\* does not name it.
get_var_index(p, name) ==
    IF \E i \in 1..Len(p.variables) : p.variables[i] = name
    THEN Some((CHOOSE i \in 1..Len(p.variables) : p.variables[i] = name) - 1)
    ELSE None

\* BTreeMap::insert.
Insert(map, key, value) ==
    [k \in DOMAIN map \cup {key} |-> IF k = key THEN value ELSE map[k]]

\* The order of String on the names of the model.
Alphabet == <<"a", "b", "c", "d", "o", "s", "x">>
Rank(name) == CHOOSE i \in 1..Len(Alphabet) : Alphabet[i] = name
NameLess(a, b) == Rank(a) < Rank(b)

\* BTreeMap::keys: the keys in ascending order.
RECURSIVE Keys(_)
Keys(S) ==
    IF S = {} THEN <<>>
    ELSE LET m == CHOOSE a \in S : \A b \in S \ {a} : NameLess(a, b)
         IN <<m>> \o Keys(S \ {m})

\* A table that leaves out the names the plan does not know.
RECURSIVE CollectKnownBindings(_, _, _)
CollectKnownBindings(p, sel, acc) ==
    IF sel = <<>> THEN Ok(acc)
    ELSE LET index == get_var_index(p, Head(sel))
         IN IF IsSome(index)
            THEN CollectKnownBindings(p, Tail(sel), Insert(acc, Head(sel), index.v))
            ELSE CollectKnownBindings(p, Tail(sel), acc)

select_bindings_skips_unknown(p, sel) == CollectKnownBindings(p, sel, <<>>)

\* collect::<StdResult<BTreeMap<String, usize>>>() over the selection: the
\* first name the plan does not know ends it with an error.
RECURSIVE CollectBindings(_, _, _)
CollectBindings(p, sel, acc) ==
    IF sel = <<>> THEN Ok(acc)
    ELSE LET index == get_var_index(p, Head(sel))
         IN IF IsSome(index)
            THEN CollectBindings(p, Tail(sel), Insert(acc, Head(sel), index.v))
            ELSE Err("Selected variable not found in query")

\* The bindings of select: Ok(name -> slot) or the error select returns.
select_bindings(p, sel) == CollectBindings(p, sel, <<>>)

\* Node::namespace: the namespace key of a named node of the model.
Namespace(node) == node.id % 2

NsLookup(key, res) == [ev |-> "ns_lookup", key |-> key, res |-> res]
NsCacheHit(key) == [ev |-> "ns_cache_hit", key |-> key, res |-> "ok"]

\* A resolve_ns that never fills the cache.
resolve_ns_never_caches(ns_store, cache, ns_key) ==
    IF ns_key \in DOMAIN cache
    THEN [res |-> Ok(cache[ns_key]), cache |-> cache, ev |-> <<NsCacheHit(ns_key)>>]
    ELSE LET maybe_ns == ns_store[ns_key]
         IN IF IsSome(maybe_ns)
            THEN [res |-> Ok(maybe_ns.v), cache |-> cache,
                  ev |-> <<NsLookup(ns_key, "ok")>>]
            ELSE [res |-> Err("Namespace not found"), cache |-> cache,
                  ev |-> <<NsLookup(ns_key, "none")>>]

\* A resolve_ns that gives the empty string for a key without record.
resolve_ns_empty_when_missing(ns_store, cache, ns_key) ==
    IF ns_key \in DOMAIN cache
    THEN [res |-> Ok(cache[ns_key]), cache |-> cache, ev |-> <<NsCacheHit(ns_key)>>]
    ELSE LET maybe_ns == ns_store[ns_key]
         IN IF IsSome(maybe_ns)
            THEN [res |-> Ok(maybe_ns.v), cache |-> Insert(cache, ns_key, maybe_ns.v),
                  ev |-> <<NsLookup(ns_key, "ok")>>]
            ELSE [res |-> Ok(""), cache |-> Insert(cache, ns_key, ""),
                  ev |-> <<NsLookup(ns_key, "none")>>]

\* SolutionsIterator::resolve_ns: [res, cache, ev].
resolve_ns(ns_store, cache, ns_key) ==
    IF ns_key \in DOMAIN cache
    THEN [res |-> Ok(cache[ns_key]), cache |-> cache, ev |-> <<NsCacheHit(ns_key)>>]
    ELSE LET maybe_ns == ns_store[ns_key]
         IN IF IsSome(maybe_ns)
            THEN [res |-> Ok(maybe_ns.v), cache |-> Insert(cache, ns_key, maybe_ns.v),
                  ev |-> <<NsLookup(ns_key, "ok")>>]
            ELSE [res |-> Err("Namespace not found"), cache |-> cache,
                  ev |-> <<NsLookup(ns_key, "none")>>]

\* msg::Value of the model.
Uri(ns, id) == [type |-> "uri", full |-> <<ns, id>>]
BlankNode(id) == [type |-> "blank_node", id |-> id]
LiteralValue(id) == [type |-> "literal", id |-> id]

\* ResolvedVariable::as_value with resolve_ns as callback: [res, cache, ev].
as_value(var, ns_store, cache) ==
    CASE var.term.t = "named" ->
           LET r == resolve_ns(ns_store, cache, Namespace(var.term))
           IN [res |-> IF IsOk(r.res) THEN Ok(Uri(r.res.v, var.term.id)) ELSE r.res,
               cache |-> r.cache, ev |-> r.ev]
      [] var.term.t = "blank" ->
           [res |-> Ok(BlankNode(var.term.id)), cache |-> cache, ev |-> <<>>]
      [] var.term.t = "literal" ->
           [res |-> Ok(LiteralValue(var.term.id)), cache |-> cache, ev |-> <<>>]

RECURSIVE project(_, _, _, _, _, _, _)

\* A projection that leaves an unbound slot out of the row.
project_skips_unbound(names, variables, table, ns_store, cache, row, ev) ==
    IF names = <<>> THEN [res |-> Ok(row), cache |-> cache, ev |-> ev]
    ELSE LET name == Head(names)
             var == get(variables, table[name])
         IN IF ~IsSome(var)
            THEN project(Tail(names), variables, table, ns_store, cache, row, ev)
            ELSE LET val == as_value(var.v, ns_store, cache)
                 IN IF IsErr(val.res)
                    THEN [res |-> val.res, cache |-> val.cache, ev |-> ev \o val.ev]
                    ELSE project(Tail(names), variables, table, ns_store, val.cache,
                                 Insert(row, name, val.res.v), ev \o val.ev)

\* The and_then closure of SolutionsIterator::next: the bindings are visited
\* in ascending name order, each through get, the unbound check and
\* as_value; the first error ends the collect: [res, cache, ev].
project(names, variables, table, ns_store, cache, row, ev) ==
    IF names = <<>> THEN [res |-> Ok(row), cache |-> cache, ev |-> ev]
    ELSE LET name == Head(names)
             var == get(variables, table[name])
         IN IF ~IsSome(var)
            THEN [res |-> Err("Couldn't find variable in result set"),
                  cache |-> cache, ev |-> ev]
            ELSE LET val == as_value(var.v, ns_store, cache)
                 IN IF IsErr(val.res)
                    THEN [res |-> val.res, cache |-> val.cache, ev |-> ev \o val.ev]
                    ELSE project(Tail(names), variables, table, ns_store, val.cache,
                                 Insert(row, name, val.res.v), ev \o val.ev)

SolutionsIterator_new(upstream, table) ==
    [iter |-> upstream, bindings |-> table, ns_cache |-> <<>>]

\* A next() that ends the stream at an upstream error.
SolutionsIterator_next_ends_on_error(st, ns_store, self) ==
    LET u == IterNext(st, self.iter)
        it == [self EXCEPT !.iter = u.it]
    IN IF ~IsSome(u.res) \/ IsErr(u.res.v)
       THEN [res |-> None, pulled |-> u.res, it |-> it, ev |-> u.ev]
       ELSE LET r == project(Keys(DOMAIN self.bindings), u.res.v.v, self.bindings,
                             ns_store, self.ns_cache, <<>>, <<>>)
            IN [res |-> Some(r.res), pulled |-> u.res,
                it |-> [it EXCEPT !.ns_cache = r.cache], ev |-> u.ev \o r.ev]

\* The body of SolutionsIterator::next once self.iter.next() returned `u`:
\* the end and an upstream error pass, a frame is projected.
SolutionsIterator_map(ns_store, self, u) ==
    IF ~IsSome(u.res)
    THEN [res |-> None, pulled |-> u.res, it |-> [self EXCEPT !.iter = u.it], ev |-> u.ev]
    ELSE IF IsErr(u.res.v)
    THEN [res |-> Some(u.res.v), pulled |-> u.res, it |-> [self EXCEPT !.iter = u.it],
          ev |-> u.ev]
    ELSE LET r == project(Keys(DOMAIN self.bindings), u.res.v.v, self.bindings,
                          ns_store, self.ns_cache, <<>>, <<>>)
         IN [res |-> Some(r.res), pulled |-> u.res,
             it |-> [self EXCEPT !.iter = u.it, !.ns_cache = r.cache],
             ev |-> u.ev \o r.ev]

\* SolutionsIterator::next: [res, pulled, it, ev], pulled being the element
\* taken from the upstream pipeline.
SolutionsIterator_next(st, ns_store, self) ==
    SolutionsIterator_map(ns_store, self, IterNext(st, self.iter))

\* Reverse of a sequence.
Reversed(seq) == [i \in 1..Len(seq) |-> seq[Len(seq) + 1 - i]]

\* A response whose header lists the names in descending order.
SelectResponse_descending_header(table, results) ==
    [head |-> [vars |-> Reversed(Keys(DOMAIN table))], results |-> [bindings |-> results]]

\* SelectResponse.
SelectResponse(table, results) ==
    [head |-> [vars |-> Keys(DOMAIN table)], results |-> [bindings |-> results]]

(***************************************************************************)
(* Specification of one select: the bindings, eval_plan, then next() on    *)
(* the SolutionsIterator until collect ends                                *)
(***************************************************************************)
\* The record of a namespace key, when the store has one.
NsValue(k) == IF k = 0 THEN "http://a/" ELSE "http://b/"

NamespaceStores ==
    {[k \in NsKeys |-> IF k \in S THEN Some(NsValue(k)) ELSE None] : S \in SUBSET NsKeys}

SelectPlans ==
    {QueryPlan(n, PlanVariables) :
        n \in {PatternA, PatternD, PatternE, ForLoopJoin(PatternA, PatternC),
               CartesianProductJoin(PatternA, PatternB), Limit(PatternE, 1)}}

Selections ==
    {<<>>, <<"a">>, <<"b", "a">>, <<"c", "b">>, <<"a", "c", "a">>, <<"a", "d">>,
     <<"x">>, <<"a", "x">>}

\* The end-to-end example: three triples of one predicate, two subjects and
\* two objects; the pattern (?s, p1, ?o); the selection of both variables.
ExampleStore ==
    {[triple |-> Triple(Named(1), Named(2), Named(1)), ok |-> TRUE],
     [triple |-> Triple(Named(1), Named(2), Literal(1)), ok |-> TRUE],
     [triple |-> Triple(Blank(1), Named(2), Named(1)), ok |-> TRUE]}
\* The store of the example, and the same with one entry that cannot be read
\* back.
ExampleStores ==
    {ExampleStore} \cup
    {(ExampleStore \ {e}) \cup {[e EXCEPT !.ok = FALSE]} : e \in ExampleStore}
ExamplePlan ==
    QueryPlan(TriplePattern(Variable(0), Constant(Named(2)), Variable(1)), <<"s", "o">>)
ExampleSelection == <<"s", "o">>

SelectInit ==
    /\ \/ /\ storage \in EvalStores
          /\ plan \in SelectPlans
          /\ selection \in Selections
       \/ /\ storage \in ExampleStores
          /\ plan = ExamplePlan
          /\ selection = ExampleSelection
    /\ namespaces \in NamespaceStores
    /\ pc = "select"
    /\ log = <<>>
    /\ iter = Empty
    /\ out = <<>>
    /\ bindings = <<>>
    /\ ns_cache = <<>>
    /\ rows = <<>>
    /\ response = None
    /\ filters = <<None, None, None>>
    /\ triple_iter = Empty
    /\ yielded = <<>>
    /\ input_vars = with_capacity(0)
    /\ NoMerge
    /\ NoConversion

\* select, up to the `?` of the bindings.
SelectBind ==
    /\ pc = "select"
    /\ LET r == select_bindings(plan, selection)
       IN IF IsErr(r)
          THEN response' = r /\ bindings' = bindings /\ pc' = "returned"
          ELSE response' = response /\ bindings' = r.v /\ pc' = "bound"
    /\ UNCHANGED <<storage, namespaces, plan, selection, log, iter, out, ns_cache, rows,
                   filters, triple_iter, yielded, input_vars, merge_vars, error_vars>>

\* A read that removes the entries it could not read back.
StorageAfter_removes_unreadable(st, ev) ==
    IF \E j \in 1..Len(ev) : ev[j].ev = "storage_next" /\ ev[j].res = "err"
    THEN {e \in st : e.ok}
    ELSE st

\* The triple store after the accesses `ev` of the engine: it holds the store
\* as &dyn Storage, and load, range and next on it are reads.
StorageAfter(st, ev) == st

\* The namespace store after the accesses `ev`: resolve_ns loads from the
\* same &dyn Storage and writes its own cache only.
NamespacesAfter(ns_store, ev) == ns_store

\* SolutionsIterator::new(self.storage, self.eval_plan(plan), bindings).
SelectEvalPlan ==
    /\ pc = "bound"
    /\ \E e \in {eval_plan(storage, plan)} :
          /\ iter' = SolutionsIterator_new(e.it, bindings).iter
          /\ ns_cache' = SolutionsIterator_new(e.it, bindings).ns_cache
          /\ log' = log \o e.ev
          /\ storage' = StorageAfter(storage, e.ev)
          /\ namespaces' = NamespacesAfter(namespaces, e.ev)
    /\ pc' = "collecting"
    /\ UNCHANGED <<plan, selection, out, bindings, rows, response,
                   filters, triple_iter, yielded, input_vars, merge_vars, error_vars>>

\* One step of collect::<StdResult<Vec<_>>>(): next() on the
\* SolutionsIterator; a row is kept, an error or the end returns.
SelectCollect ==
    /\ pc = "collecting"
    /\ \E r \in {SolutionsIterator_next(
                    storage, namespaces,
                    [iter |-> iter, bindings |-> bindings, ns_cache |-> ns_cache])} :
          /\ iter' = r.it.iter
          /\ ns_cache' = r.it.ns_cache
          /\ log' = log \o r.ev
          /\ storage' = StorageAfter(storage, r.ev)
          /\ namespaces' = NamespacesAfter(namespaces, r.ev)
          /\ out' = IF IsSome(r.pulled) THEN Append(out, r.pulled.v) ELSE out
          /\ IF ~IsSome(r.res)
             THEN /\ response' = Ok(SelectResponse(bindings, rows))
                  /\ rows' = rows
                  /\ pc' = "returned"
             ELSE IF IsErr(r.res.v)
             THEN /\ response' = r.res.v
                  /\ rows' = rows
                  /\ pc' = "returned"
             ELSE /\ response' = response
                  /\ rows' = Append(rows, r.res.v.v)
                  /\ pc' = pc
    /\ UNCHANGED <<plan, selection, bindings,
                   filters, triple_iter, yielded, input_vars, merge_vars, error_vars>>

SelectNext == SelectBind \/ SelectEvalPlan \/ SelectCollect

SpecSelect == SelectInit /\ [][SelectNext]_vars

\* A step of select is possible until it has returned: the bindings, the
\* call of eval_plan and each next() of collect change pc, iter, out or log.
SelectRunning == pc # "returned"

\* Weak fairness of the steps of select, with the enabling condition of
\* <<SelectNext>>_vars written as the state predicate it amounts to: select
\* is one synchronous call, each of its steps is taken as soon as the one
\* before it is done.
SelectFairness == ([]<>(~SelectRunning)) \/ ([]<><<SelectNext>>_vars)

SpecSelectFair == SelectInit /\ [][SelectNext]_vars /\ SelectFairness

(***************************************************************************)
(* Properties of the scan                                                  *)
(***************************************************************************)
\* A triple matches a filter tuple when it equals every bound component.
Matches(t, f) ==
    /\ IsSome(f[1]) => t.subject = f[1].v
    /\ IsSome(f[2]) => t.predicate = f[2].v
    /\ IsSome(f[3]) => t.object = f[3].v

\* Full scan followed by an in-memory filter on the bound components.
FullScanThenFilter(st, f) == {e.triple : e \in {x \in st : x.ok /\ Matches(x.triple, f)}}

OkValues(seq) == SelectSeq(seq, IsOk)

\* C1: once the scan opened by make_state_iter is exhausted, its Ok elements
\* are exactly the readable stored triples that equal every bound filter
\* component, each yielded once; while it runs, no other triple is yielded.
C1_ScanYieldsExactlyMatching ==
    LET oks == OkValues(yielded)
        got == {oks[i].v : i \in 1..Len(oks)}
    IN /\ got \subseteq FullScanThenFilter(storage, filters)
       /\ \A i, j \in 1..Len(oks) : oks[i] = oks[j] => i = j
       /\ pc = "done" => got = FullScanThenFilter(storage, filters)

\* A scan with a post-filter that has dropped a stored triple and kept another.
C1_Witness ==
    /\ pc = "done"
    /\ Strategy(filters) = "secondary_sub_prefix_filter_object"
    /\ Len(OkValues(yielded)) = 1
    /\ \E e \in storage :
        e.ok /\ e.triple.subject = filters[1].v /\ e.triple.object # filters[3].v

\* C2: with all three filters bound and no stored triple under that key, the
\* scan yields zero elements (neither a triple nor an error).
C2_PointLookupMissYieldsNothing ==
    (/\ pc = "done"
     /\ Strategy(filters) = "point_lookup"
     /\ ~\E e \in storage : Matches(e.triple, filters))
        => Len(yielded) = 0

(***************************************************************************)
(* Properties of the pipeline                                              *)
(***************************************************************************)
Root == plan.entrypoint
EmptyFrame == with_capacity(Len(plan.variables))

\* The whole output of the sub-plan `node` (at `path`) for the input `frame`.
Stream(node, path, frame) ==
    Collect(storage, eval_node(storage, node, path, frame).it, <<>>, <<>>).items

IsPrefix(a, b) == Len(a) <= Len(b) /\ SubSeq(b, 1, Len(a)) = a
Drop(n, seq) == SubSeq(seq, n + 1, Len(seq))

RECURSIVE Flatten(_)
Flatten(seqs) == IF seqs = <<>> THEN <<>> ELSE Head(seqs) \o Flatten(Tail(seqs))

IsStorageRead(e) == e.ev \in {"storage_load", "storage_next"}
IsInvokeAt(e, path) == e.ev = "invoke" /\ e.node = path
IsYieldAt(e, path) == e.ev = "yield" /\ e.node = path

InvokesAt(path) == SelectSeq(log, LAMBDA e : IsInvokeAt(e, path))
YieldsAt(path) == SelectSeq(log, LAMBDA e : IsYieldAt(e, path))

\* The nodes of a plan with their paths.
RECURSIVE NodesOf(_, _)
NodesOf(node, path) ==
    {[path |-> path, node |-> node]} \cup
        CASE node.node = "TriplePattern" -> {}
          [] node.node \in {"CartesianProductJoin", "ForLoopJoin"} ->
               NodesOf(node.left, Append(path, "left"))
                   \cup NodesOf(node.right, Append(path, "right"))
          [] node.node \in {"Skip", "Limit"} -> NodesOf(node.child, Append(path, "child"))

\* The slots a sub-plan names.
RECURSIVE VariablesOf(_)
VariablesOf(node) ==
    CASE node.node = "TriplePattern" ->
           {pv.slot : pv \in {x \in {node.subject, node.predicate, node.object} :
                                   x.pv = "variable"}}
      [] node.node \in {"CartesianProductJoin", "ForLoopJoin"} ->
           VariablesOf(node.left) \cup VariablesOf(node.right)
      [] node.node \in {"Skip", "Limit"} -> VariablesOf(node.child)

AllConstant(node) ==
    /\ node.subject.pv = "constant"
    /\ node.predicate.pv = "constant"
    /\ node.object.pv = "constant"

\* The chain of nodes whose closures eval_plan calls before it returns holds
\* no cartesian-product join and does not end in an all-constant pattern.
RECURSIVE LazyChain(_)
LazyChain(node) ==
    CASE node.node = "TriplePattern" -> ~AllConstant(node)
      [] node.node = "CartesianProductJoin" -> FALSE
      [] node.node = "ForLoopJoin" -> LazyChain(node.left)
      [] node.node \in {"Skip", "Limit"} -> LazyChain(node.child)

RECURSIVE EndsInPointLookup(_)
EndsInPointLookup(node) ==
    CASE node.node = "TriplePattern" -> AllConstant(node)
      [] node.node \in {"CartesianProductJoin", "ForLoopJoin"} -> EndsInPointLookup(node.left)
      [] node.node \in {"Skip", "Limit"} -> EndsInPointLookup(node.child)

\* C3 (as claimed): eval_plan performs no storage read for any plan: when it
\* has returned and nothing was pulled yet, no point lookup was done and no
\* element was read from a range.
C3_EvalPlanReadsNothing ==
    pc = "invoked" => \A i \in 1..Len(log) : ~IsStorageRead(log[i])

\* C3 (amended): eval_plan performs no storage read when the chain of nodes
\* it calls (the entrypoint, then the child of a Skip or Limit or the left of
\* a join) holds no CartesianProductJoin and does not end in a TriplePattern
\* whose three parts are constants; an all-constant pattern at the end of the
\* chain performs its point lookup during eval_plan.
C3_EvalPlanLazyOnLazyChain ==
    pc = "invoked" =>
        /\ LazyChain(Root) => \A i \in 1..Len(log) : ~IsStorageRead(log[i])
        /\ EndsInPointLookup(Root) => \E i \in 1..Len(log) : log[i].ev = "storage_load"

\* A for-loop join over a range scan was invoked: the range is opened, nothing
\* is read.
C3_Witness ==
    /\ pc = "invoked"
    /\ Root.node = "ForLoopJoin"
    /\ LazyChain(Root)
    /\ storage # {}
    /\ \E i \in 1..Len(log) : log[i].ev = "storage_range"

\* The errors met while the right sub-plan of the root join was collected.
RootRightErrors == RightErrors(Stream(Root.right, <<"right">>, EmptyFrame))

\* C4: a cartesian-product join emits the errors met while materializing its
\* right sub-plan first, in the order met: they are the first elements of the
\* output, and the left pipeline is not pulled before they are all emitted.
C4_RightErrorsFirst ==
    (pc # "built" /\ Root.node = "CartesianProductJoin") =>
        LET E == RootRightErrors
        IN /\ \A i \in 1..Len(out) : i <= Len(E) => out[i] = E[i]
           /\ pc = "done" => Len(out) >= Len(E)
           /\ (pc # "done" /\ Len(out) <= Len(E)) => YieldsAt(<<"left">>) = <<>>

C4_Witness ==
    /\ pc = "done"
    /\ Root.node = "CartesianProductJoin"
    /\ Len(RootRightErrors) >= 1
    /\ Len(out) > Len(RootRightErrors)
    /\ IsOk(out[Len(out)])

\* Merge-compatibility and union of two frames, as the data model states them.
Compatible(a, b) == \A i \in DOMAIN a : (IsSome(a[i]) /\ IsSome(b[i])) => a[i] = b[i]
Union(a, b) == [i \in DOMAIN a |-> IF IsSome(a[i]) THEN a[i] ELSE b[i]]

RECURSIVE PairsOf(_, _)
PairsOf(l, rights) ==
    IF rights = <<>> THEN <<>>
    ELSE (IF Compatible(l, Head(rights)) THEN <<Ok(Union(l, Head(rights)))>> ELSE <<>>)
            \o PairsOf(l, Tail(rights))

RECURSIVE AllPairs(_, _)
AllPairs(lefts, rights) ==
    IF lefts = <<>> THEN <<>>
    ELSE PairsOf(Head(lefts), rights) \o AllPairs(Tail(lefts), rights)

\* C5: the Ok elements of a cartesian-product join are, for each Ok left
\* frame in left order and each materialized right frame in order, their
\* merge when they are compatible; an incompatible pair adds no element: the
\* errors of the output are those of the right and of the left sub-plan.
C5_CartesianEmitsCompatibleMerges ==
    (pc # "built" /\ Root.node = "CartesianProductJoin") =>
        LET L == Stream(Root.left, <<"left">>, EmptyFrame)
            R == Stream(Root.right, <<"right">>, EmptyFrame)
            expected == AllPairs(RightValues(L), RightValues(R))
        IN /\ IsPrefix(OkValues(out), expected)
           /\ pc = "done" =>
                /\ OkValues(out) = expected
                /\ SelectSeq(out, IsErr) = RightErrors(R) \o RightErrors(L)

\* A join that merged some pairs and dropped others.
C5_Witness ==
    /\ pc = "done"
    /\ Root.node = "CartesianProductJoin"
    /\ LET L == RightValues(Stream(Root.left, <<"left">>, EmptyFrame))
           R == RightValues(Stream(Root.right, <<"right">>, EmptyFrame))
       IN /\ Len(OkValues(out)) >= 2
          /\ Len(OkValues(out)) < Len(L) * Len(R)

\* C6: each invocation of a cartesian-product join evaluates its right
\* sub-plan exactly once, with the input frame of the join.
C6_RightEvaluatedOncePerInvocation ==
    pc # "built" =>
        \A n \in NodesOf(Root, <<>>) :
            n.node.node = "CartesianProductJoin" =>
                LET joins == InvokesAt(n.path)
                    rights == InvokesAt(Append(n.path, "right"))
                IN /\ Len(rights) = Len(joins)
                   /\ \A i \in 1..Len(joins) : rights[i].input = joins[i].input

\* A join under a for-loop join, invoked once per left frame with a frame
\* that binds a slot, its own left pipeline producing frames each time.
C6_Witness ==
    /\ pc = "done"
    /\ Root.node = "ForLoopJoin"
    /\ Root.right.node = "CartesianProductJoin"
    /\ Len(InvokesAt(<<"right", "right">>)) >= 2
    /\ \A i \in 1..Len(InvokesAt(<<"right">>)) :
            InvokesAt(<<"right">>)[i].input # EmptyFrame
    /\ Len(SelectSeq(YieldsAt(<<"right", "left">>), LAMBDA e : e.res = "ok")) >= 2
    /\ Len(OkValues(out)) >= 2

\* The events of the log that concern the for-loop join at `path`.
ForLoopEvents(path) ==
    SelectSeq(log, LAMBDA e :
        \/ IsInvokeAt(e, path)
        \/ IsInvokeAt(e, Append(path, "right"))
        \/ IsYieldAt(e, path)
        \/ IsYieldAt(e, Append(path, "left"))
        \/ IsYieldAt(e, Append(path, "right")))

\* What a for-loop join emits for the elements of its left pipeline.
ForLoopExpected(L) ==
    Flatten([i \in 1..Len(L) |->
                IF IsOk(L[i]) THEN Stream(Root.right, <<"right">>, L[i].v) ELSE <<L[i]>>])

\* C7: a for-loop join emits, for the Ok frames of its left pipeline in
\* order, the whole output of the right pipeline invoked with that frame; the
\* right pipeline is invoked once per Ok left frame, with it as input; and
\* the left pipeline is pulled only when the join was just invoked, when the
\* inner sequence has returned None, or after a left error.
C7_ForLoopDrainsInnerPerLeftFrame ==
    pc # "built" =>
        /\ Root.node = "ForLoopJoin" =>
            LET L == Stream(Root.left, <<"left">>, EmptyFrame)
                rights == InvokesAt(<<"right">>)
            IN /\ IsPrefix(out, ForLoopExpected(L))
               /\ pc = "done" => out = ForLoopExpected(L)
               /\ IsPrefix([i \in 1..Len(rights) |-> rights[i].input], RightValues(L))
               /\ pc = "done" => Len(rights) = Len(RightValues(L))
        /\ \A n \in NodesOf(Root, <<>>) :
            n.node.node = "ForLoopJoin" =>
                LET E == ForLoopEvents(n.path)
                IN \A j \in 1..Len(E) :
                    IsYieldAt(E[j], Append(n.path, "left")) =>
                        /\ j > 1
                        /\ \/ IsInvokeAt(E[j - 1], n.path)
                           \/ IsYieldAt(E[j - 1], Append(n.path, "right"))
                                /\ E[j - 1].res = "none"
                           \/ IsYieldAt(E[j - 1], n.path) /\ E[j - 1].res = "err"
                                /\ j > 2
                                /\ IsYieldAt(E[j - 2], Append(n.path, "left"))
                                /\ E[j - 2].res = "err"

\* A join whose left pipeline gave two frames, each with an inner sequence
\* of two elements.
C7_Witness ==
    /\ pc = "done"
    /\ Root.node = "ForLoopJoin"
    /\ Len(InvokesAt(<<"right">>)) = 2
    /\ Len(OkValues(out)) = 4

\* C8: when the left pipeline of a for-loop join yields an error, the join
\* returns that error from the same next(), as one element: the right
\* pipeline is not invoked for it (it is invoked once per Ok left frame only)
\* and the join's next step is to pull the left pipeline again.
C8_ForLoopForwardsLeftError ==
    pc # "built" =>
        /\ \A n \in NodesOf(Root, <<>>) :
            n.node.node = "ForLoopJoin" =>
                LET E == ForLoopEvents(n.path)
                    left == Append(n.path, "left")
                IN /\ \A j \in 1..Len(E) :
                        (IsYieldAt(E[j], left) /\ E[j].res = "err") =>
                            /\ j < Len(E)
                            /\ IsYieldAt(E[j + 1], n.path) /\ E[j + 1].res = "err"
                            /\ j + 2 <= Len(E) =>
                                 IsYieldAt(E[j + 2], left) \/ IsInvokeAt(E[j + 2], n.path)
                   /\ Len(InvokesAt(Append(n.path, "right")))
                        = Len(SelectSeq(YieldsAt(left), LAMBDA e : e.res = "ok"))
        /\ Root.node = "ForLoopJoin" =>
            LET L == Stream(Root.left, <<"left">>, EmptyFrame)
                emitted == SelectSeq(log, LAMBDA e :
                               \/ IsYieldAt(e, <<"left">>)
                               \/ IsYieldAt(e, <<>>) /\ e.res # "none")
            IN \A j \in 1..Len(emitted) :
                (IsYieldAt(emitted[j], <<"left">>) /\ emitted[j].res = "err") =>
                    LET m == Len(SelectSeq(SubSeq(emitted, 1, j),
                                           LAMBDA e : IsYieldAt(e, <<"left">>)))
                        k == Len(SelectSeq(SubSeq(emitted, 1, j + 1),
                                           LAMBDA e : IsYieldAt(e, <<>>)))
                    IN out[k] = L[m]

\* A left error between two left frames that were joined.
C8_Witness ==
    /\ pc = "done"
    /\ Root.node = "ForLoopJoin"
    /\ Len(out) >= 2
    /\ IsErr(out[1])
    /\ IsOk(out[Len(out)])
    /\ \E j \in 1..Len(YieldsAt(<<"left">>)) : YieldsAt(<<"left">>)[j].res = "err"

\* C9: for two sub-plans that share no variable, when no storage error
\* occurs, the cartesian-product join and the for-loop join of them, from the
\* same input frame, yield the same number of solutions, |left| x |right|.
C9_JoinsYieldSameCount ==
    (/\ pc = "done"
     /\ Root.node = "CartesianProductJoin"
     /\ VariablesOf(Root.left) \cap VariablesOf(Root.right) = {})
        => LET L == Stream(Root.left, <<"left">>, EmptyFrame)
               R == Stream(Root.right, <<"right">>, EmptyFrame)
               F == Stream(ForLoopJoin(Root.left, Root.right), <<>>, EmptyFrame)
           IN (SelectSeq(L \o R \o F \o out, IsErr) = <<>>)
                => /\ Len(out) = Len(F)
                   /\ Len(out) = Len(L) * Len(R)

C9_Witness ==
    /\ pc = "done"
    /\ Root.node = "CartesianProductJoin"
    /\ VariablesOf(Root.left) \cap VariablesOf(Root.right) = {}
    /\ VariablesOf(Root.left) # {}
    /\ VariablesOf(Root.right) # {}
    /\ Len(OkValues(out)) = 4
    /\ Len(out) = 4

\* C10: Skip{first: n} emits the elements of its child from position n+1
\* on, in order; the first n are discarded, solutions and errors alike.
C10_SkipDiscardsFirstN ==
    (pc # "built" /\ Root.node = "Skip") =>
        LET child == Stream(Root.child, <<"child">>, EmptyFrame)
        IN /\ IsPrefix(out, Drop(Root.first, child))
           /\ pc = "done" => out = Drop(Root.first, child)

\* An error among the discarded elements, and an element emitted after it.
C10_Witness ==
    /\ pc = "done"
    /\ Root.node = "Skip"
    /\ Root.first >= 1
    /\ out # <<>>
    /\ SelectSeq(out, IsErr) = <<>>
    /\ IsErr(Stream(Root.child, <<"child">>, EmptyFrame)[1])

Min(a, b) == IF a <= b THEN a ELSE b
Max(a, b) == IF a >= b THEN a ELSE b

\* C11: Limit{first: n} emits the first min(n, L) elements of its child, in
\* order, L being the child's length; an error element counts as one of the
\* n and is emitted unchanged.
C11_LimitEmitsFirstN ==
    (pc # "built" /\ Root.node = "Limit") =>
        LET child == Stream(Root.child, <<"child">>, EmptyFrame)
            expected == SubSeq(child, 1, Min(Root.first, Len(child)))
        IN /\ IsPrefix(out, expected)
           /\ pc = "done" => out = expected

\* A limit that cut its child short after passing an error.
C11_Witness ==
    /\ pc = "done"
    /\ Root.node = "Limit"
    /\ Root.first >= 1
    /\ Len(out) = Root.first
    /\ Len(Stream(Root.child, <<"child">>, EmptyFrame)) > Root.first
    /\ IsErr(out[1])

\* C12: Limit(m) over Skip(n) over a child of length L emits
\* max(0, min(m, L - n)) elements: the child's elements n+1 .. n+min(m, L-n),
\* in the child's order.
C12_SkipThenLimitWindow ==
    (pc # "built" /\ Root.node = "Limit" /\ Root.child.node = "Skip") =>
        LET child == Stream(Root.child.child, <<"child", "child">>, EmptyFrame)
            n == Root.child.first
            m == Root.first
            k == Max(0, Min(m, Len(child) - n))
            expected == SubSeq(child, n + 1, n + k)
        IN /\ IsPrefix(out, expected)
           /\ pc = "done" => (out = expected /\ Len(out) = k)

\* A window with elements cut off on both sides.
C12_Witness ==
    /\ pc = "done"
    /\ Root.node = "Limit"
    /\ Root.child.node = "Skip"
    /\ Root.child.first >= 1
    /\ Root.first >= 1
    /\ Len(out) = Root.first
    /\ Len(Stream(Root.child.child, <<"child", "child">>, EmptyFrame))
            > Root.child.first + Root.first

(***************************************************************************)
(* Reference semantics of a plan                                           *)
(***************************************************************************)
\* The elements of the scan make_state_iter opens, in order.
ScanItems(st, f) ==
    LET it == make_state_iter(st, f)
    IN IF it.kind = "once" THEN <<it.item.v>>
       ELSE SelectSeq([i \in 1..Len(it.pending) |-> Item(it.pending[i])],
                      LAMBDA r : PostFilter(it.post, r))

\* The stream a sub-plan denotes for an input frame: a pattern maps the
\* elements of its scan; a for-loop join replaces each left frame by the
\* stream of the right sub-plan for it and keeps a left error; a cartesian
\* join gives the right errors, then per left element its compatible merges
\* or the left error; Skip and Limit cut the stream.
RECURSIVE Denote(_, _)
Denote(node, frame) ==
    CASE node.node = "TriplePattern" ->
           LET io == compute_iter_io(frame, node.subject, node.predicate, node.object)
           IN IF ~IsSome(io) THEN <<>>
              ELSE LET items == ScanItems(storage, io.v.filters)
                   IN [i \in 1..Len(items) |->
                         IF IsOk(items[i])
                         THEN Ok(BindTriple(frame, io.v.bindings, items[i].v))
                         ELSE items[i]]
      [] node.node = "ForLoopJoin" ->
           LET L == Denote(node.left, frame)
           IN Flatten([i \in 1..Len(L) |->
                         IF IsOk(L[i]) THEN Denote(node.right, L[i].v) ELSE <<L[i]>>])
      [] node.node = "CartesianProductJoin" ->
           LET R == Denote(node.right, frame)
               L == Denote(node.left, frame)
           IN RightErrors(R) \o
                Flatten([i \in 1..Len(L) |->
                           IF IsOk(L[i]) THEN PairsOf(L[i].v, RightValues(R)) ELSE <<L[i]>>])
      [] node.node = "Skip" -> Drop(node.first, Denote(node.child, frame))
      [] node.node = "Limit" ->
           LET c == Denote(node.child, frame)
           IN SubSeq(c, 1, Min(node.first, Len(c)))

HasNode(node, kinds) == \E n \in NodesOf(node, <<>>) : n.node.node \in kinds

\* The storage reads of the run that returned an error.
RaisedErrors == SelectSeq(log, LAMBDA e : IsStorageRead(e) /\ e.res = "err")

\* The plan performs a point lookup somewhere.
HasPointLookup(node) ==
    \E n \in NodesOf(node, <<>>) : n.node.node = "TriplePattern" /\ AllConstant(n.node)

\* C14 (as claimed): every storage error raised while a plan is evaluated is
\* an error element of the output, whatever the operators of the plan (Skip
\* and Limit included). Stated for the plans whose scans are all ranges.
C14_NoErrorDropped ==
    (pc = "done" /\ ~HasPointLookup(Root)) =>
        Len(SelectSeq(out, IsErr)) = Len(RaisedErrors)

\* C14 (amended): the output holds no error that storage did not raise; in a
\* plan without Skip and Limit every storage error raised is an error
\* element of the output, and the solutions of the output are those of the
\* plan (a frame is dropped only by a type-mismatched bound slot or an
\* incompatible merge). Skip and Limit drop errors with the elements they cut.
C14_ErrorsDroppedOnlyBySkipOrLimit ==
    pc = "done" =>
        /\ Len(SelectSeq(out, IsErr)) <= Len(RaisedErrors)
        /\ ~HasNode(Root, {"Skip", "Limit"}) =>
              /\ Len(SelectSeq(out, IsErr)) = Len(RaisedErrors)
              /\ OkValues(out) = OkValues(Denote(Root, EmptyFrame))

\* A post-filtering scan under a join met an unreadable entry and the join
\* still produced solutions.
C14_Witness ==
    /\ pc = "done"
    /\ Root.node \in {"ForLoopJoin", "CartesianProductJoin"}
    /\ ~HasNode(Root, {"Skip", "Limit"})
    /\ Root.left = PatternA
    /\ Len(RaisedErrors) >= 1
    /\ Len(SelectSeq(out, IsErr)) = Len(RaisedErrors)
    /\ Len(OkValues(out)) >= 1

\* C15 (as claimed): an error element that comes from a scan is followed by
\* no further element.
C15_NothingAfterScanError ==
    Root.node = "TriplePattern" =>
        \A i \in 1..Len(out) : IsErr(out[i]) => i = Len(out)

\* C15 (amended): an error element never ends the stream: the output is the
\* stream the plan denotes, in which a range scan goes on with its next
\* entry after an unreadable one, a for-loop join gives a left error as one
\* element and goes on with the next left element, and a cartesian join
\* gives its merged solutions after its deferred errors.
C15_StreamContinuesAfterError ==
    pc # "built" =>
        /\ IsPrefix(out, Denote(Root, EmptyFrame))
        /\ pc = "done" => out = Denote(Root, EmptyFrame)

\* A scan that yielded a solution after an error.
C15_Witness ==
    /\ pc = "done"
    /\ Root.node = "TriplePattern"
    /\ Len(out) = 2
    /\ IsErr(out[1])
    /\ IsOk(out[2])

(***************************************************************************)
(* Properties of select                                                    *)
(***************************************************************************)
PlanNames == {plan.variables[i] : i \in 1..Len(plan.variables)}
Unknown(name) == name \notin PlanNames

\* C13: a selection that names a variable the plan does not have makes select
\* return "Selected variable not found in query" before the plan is
\* evaluated: no pipeline exists and no storage or namespace access was made.
C13_UnknownVariableFailsAtSetup ==
    (\E i \in 1..Len(selection) : Unknown(selection[i])) =>
        /\ log = <<>>
        /\ iter = Empty
        /\ out = <<>>
        /\ pc \in {"select", "returned"}
        /\ pc = "returned" => response = Err("Selected variable not found in query")

\* The unknown name comes after a known one, on a store that has triples.
C13_Witness ==
    /\ pc = "returned"
    /\ selection = <<"a", "x">>
    /\ storage # {}
    /\ response = Err("Selected variable not found in query")

\* The selected names, in the order the projector visits them.
SelectedNames == Keys(DOMAIN bindings)

\* The frame leaves the slot of a selected name unbound.
LeavesUnbound(frame, name) == ~IsSome(get(frame, bindings[name]))

\* The frame binds the name to a node whose namespace key has no record.
LacksNamespace(frame, name) ==
    LET var == get(frame, bindings[name])
    IN /\ IsSome(var)
       /\ var.v.term.t = "named"
       /\ ~IsSome(namespaces[Namespace(var.v.term)])

\* C16 (as claimed): a pulled frame that leaves a selected slot unbound makes
\* the projector yield "Couldn't find variable in result set" for it.
C16_UnboundSlotYieldsNotFound ==
    \A i \in 1..Len(out) :
        (IsOk(out[i]) /\ \E name \in DOMAIN bindings : LeavesUnbound(out[i].v, name))
            => response = Err("Couldn't find variable in result set")

\* C16 (amended): a pulled frame that leaves a selected slot unbound makes
\* the projector yield an error and no row: "Couldn't find variable in result
\* set", unless a selected name that precedes the first unbound one in
\* ascending order is bound to a node whose namespace has no record, and
\* then the error of that lookup; every row has all the selected names.
C16_UnboundSlotYieldsError ==
    /\ \A i \in 1..Len(out) :
        (IsOk(out[i]) /\ \E name \in DOMAIN bindings : LeavesUnbound(out[i].v, name)) =>
            LET names == SelectedNames
                u == CHOOSE j \in 1..Len(names) :
                        /\ LeavesUnbound(out[i].v, names[j])
                        /\ \A k \in 1..(j - 1) : ~LeavesUnbound(out[i].v, names[k])
            IN /\ i = Len(out)
               /\ Len(rows) = i - 1
               /\ response =
                    IF \E k \in 1..(u - 1) : LacksNamespace(out[i].v, names[k])
                    THEN Err("Namespace not found")
                    ELSE Err("Couldn't find variable in result set")
    /\ \A i \in 1..Len(rows) : DOMAIN rows[i] = DOMAIN bindings

\* The unbound name came after a name whose namespace was resolved.
C16_Witness ==
    /\ pc = "returned"
    /\ selection = <<"a", "d">>
    /\ response = Err("Couldn't find variable in result set")
    /\ \E i \in 1..Len(log) : log[i].ev = "ns_lookup" /\ log[i].res = "ok"

\* The external value of a bound variable, by the records of the store.
ValueOf(var) ==
    CASE var.term.t = "named" -> Uri(namespaces[Namespace(var.term)].v, var.term.id)
      [] var.term.t = "blank" -> BlankNode(var.term.id)
      [] var.term.t = "literal" -> LiteralValue(var.term.id)

\* The projection of a frame onto the selected variables.
RowOf(frame) == [name \in DOMAIN bindings |-> ValueOf(frame[bindings[name]].v)]

\* C17: the projector gives one element per element it pulls, in order: the
\* i-th row is the projection of the i-th upstream frame, at most the last
\* pulled element has no row (the error select returns), and a successful
\* select has pulled the whole upstream stream and returns one row for each
\* of its frames.
C17_OneRowPerUpstreamFrame ==
    /\ Len(rows) <= Len(out)
    /\ Len(out) <= Len(rows) + 1
    /\ \A i \in 1..Len(rows) : IsOk(out[i]) /\ rows[i] = RowOf(out[i].v)
    /\ (pc = "collecting") => Len(rows) = Len(out)
    /\ (pc = "returned" /\ IsOk(response)) =>
            /\ response.v.results.bindings = rows
            /\ Len(rows) = Len(out)
            /\ out = Denote(Root, EmptyFrame)

\* A select that returned two different rows.
C17_Witness ==
    /\ pc = "returned"
    /\ IsOk(response)
    /\ Len(response.v.results.bindings) = 2
    /\ response.v.results.bindings[1] # response.v.results.bindings[2]
    /\ Len(selection) >= 2

NsLookupsOf(key) == SelectSeq(log, LAMBDA e : e.ev = "ns_lookup" /\ e.key = key)

\* C18: once a namespace key was resolved, a later resolution of it is
\* answered from the cache with the string the lookup returned: per key, the
\* log holds at most one successful lookup and no lookup after it.
C18_NamespaceLookedUpOncePerKey ==
    /\ \A k \in NsKeys :
        /\ Len(SelectSeq(NsLookupsOf(k), LAMBDA e : e.res = "ok")) <= 1
        /\ \A i \in 1..Len(NsLookupsOf(k)) :
                NsLookupsOf(k)[i].res = "ok" => i = Len(NsLookupsOf(k))
        /\ (\E i \in 1..Len(log) : log[i] = NsCacheHit(k)) => k \in DOMAIN ns_cache
    /\ \A k \in DOMAIN ns_cache : namespaces[k] = Some(ns_cache[k])

\* A key was looked up and later answered from the cache.
C18_Witness ==
    \E i, j \in 1..Len(log) :
        /\ i < j
        /\ log[i].ev = "ns_lookup" /\ log[i].res = "ok"
        /\ log[j] = NsCacheHit(log[i].key)

(***************************************************************************)
(* Properties of the pattern resolver                                      *)
(***************************************************************************)
\* The kinds of term each part of a triple admits.
PartTypes(part) ==
    CASE part = "subject" -> {"named", "blank"}
      [] part = "predicate" -> {"named"}
      [] part = "object" -> {"named", "blank", "literal"}

PatternPart(part) ==
    CASE part = "subject" -> Root.subject
      [] part = "predicate" -> Root.predicate
      [] part = "object" -> Root.object

\* The part is a variable bound to a value its part type does not admit.
Unprojectable(part) ==
    LET pv == PatternPart(part)
    IN /\ pv.pv = "variable"
       /\ IsSome(input_vars[pv.slot])
       /\ input_vars[pv.slot].v.term.t \notin PartTypes(part)

\* What the resolver owes for a part that can be resolved.
ExpectedPart(part) ==
    LET pv == PatternPart(part)
    IN IF pv.pv = "constant" THEN [filter |-> Some(pv.term), bind |-> None]
       ELSE IF IsSome(input_vars[pv.slot])
       THEN [filter |-> Some(input_vars[pv.slot].v.term), bind |-> None]
       ELSE [filter |-> None, bind |-> Some(pv.slot)]

Parts == <<"subject", "predicate", "object">>

\* C19: for each part on its own, a constant gives the constant as filter and
\* no output binding, a bound variable gives the bound term, as a term of
\* that part, as filter and no output binding, an unbound variable gives no
\* filter and its slot as output binding; an Object blank node bound to the
\* subject variable gives the blank node with that label as subject filter.
C19_ResolverPerPart ==
    pc # "pattern" =>
        /\ \A i \in 1..3 :
            ~Unprojectable(Parts[i]) =>
                resolve_pattern_part(PatternPart(Parts[i]), Parts[i], input_vars)
                    = Some(ExpectedPart(Parts[i]))
        /\ (\A i \in 1..3 : ~Unprojectable(Parts[i])) =>
            /\ filters = [i \in 1..3 |-> ExpectedPart(Parts[i]).filter]
            /\ iter.output_bindings = [i \in 1..3 |-> ExpectedPart(Parts[i]).bind]
            /\ (/\ Root.subject.pv = "variable"
                /\ IsSome(input_vars[Root.subject.slot])
                /\ input_vars[Root.subject.slot].v.as = "Object"
                /\ input_vars[Root.subject.slot].v.term.t = "blank")
                    => filters[1] = Some(Blank(input_vars[Root.subject.slot].v.term.id))

\* An Object blank node in subject position, a constant and an unbound
\* variable beside it.
C19_Witness ==
    /\ pc # "pattern"
    /\ Root = TriplePattern(Variable(0), Constant(Named(2)), Variable(2))
    /\ input_vars[0] = Some(AsObject(Blank(1)))
    /\ input_vars[2] = None
    /\ filters = <<Some(Blank(1)), Some(Named(2)), None>>
    /\ iter.output_bindings = <<None, None, Some(2)>>

IsStorageAccess(e) == e.ev \in {"storage_load", "storage_range", "storage_next"}

\* C20: when one part is a variable bound to a value that cannot be taken as
\* a term of that part, the pattern gives no element and no error for the
\* input frame and opens no scan, whatever the other two parts are.
C20_TypeMismatchGivesEmpty ==
    (pc # "pattern" /\ \E i \in 1..3 : Unprojectable(Parts[i])) =>
        /\ out = <<>>
        /\ \A j \in 1..Len(log) : ~IsStorageAccess(log[j])
        /\ iter.triple_iter = Empty

\* A blank node in predicate position, on a store whose triples match the
\* other two parts.
C20_Witness ==
    /\ pc = "done"
    /\ Root.predicate = Variable(1)
    /\ input_vars[1] = Some(AsSubject(Blank(1)))
    /\ Root.subject = Variable(0) /\ input_vars[0] = None
    /\ Root.object = Constant(Named(1))
    /\ \E e \in storage : e.ok /\ e.triple.object = Named(1)
    /\ out = <<>>

(***************************************************************************)
(* The access strategy of a resolved pattern                               *)
(***************************************************************************)
Resolved == \A i \in 1..3 : ~Unprojectable(Parts[i])

FilterBound(part) ==
    CASE part = "subject" -> IsSome(filters[1])
      [] part = "predicate" -> IsSome(filters[2])
      [] part = "object" -> IsSome(filters[3])

\* The key of the filter of a part, as the indexes hold it.
FilterKey(part) ==
    CASE part = "subject" -> SubjectKey(filters[1].v)
      [] part = "predicate" -> PredicateKey(filters[2].v)
      [] part = "object" -> ObjectHash(filters[3].v)

PointLookup == [kind |-> "once"]
IndexScan(index, parts, post) ==
    [kind |-> "range", index |-> index, parts |-> parts, post |-> post]

\* The table of strategies, by which of subject, predicate and object are
\* bound.
StrategyTable(s, p, o) ==
    CASE s /\ p /\ o -> PointLookup
      [] s /\ p /\ ~o -> IndexScan("secondary", <<"subject", "predicate">>, "none")
      [] ~s /\ p /\ o -> IndexScan("primary", <<"object", "predicate">>, "none")
      [] s /\ ~p /\ ~o -> IndexScan("secondary", <<"subject">>, "none")
      [] s /\ ~p /\ o -> IndexScan("secondary", <<"subject">>, "object")
      [] ~s /\ p /\ ~o -> IndexScan("primary", <<>>, "predicate")
      [] ~s /\ ~p /\ o -> IndexScan("primary", <<"object">>, "none")
      [] ~s /\ ~p /\ ~o -> IndexScan("primary", <<>>, "none")

\* The iterator is the access `access` of the table, on the bound values.
Performs(it, access) ==
    /\ it.kind = access.kind
    /\ access.kind = "once" =>
        /\ Len(log) >= 2
        /\ log[2].ev = "storage_load"
        /\ \A j \in 1..Len(log) : log[j].ev \notin {"storage_range", "storage_next"}
    /\ access.kind = "range" =>
        /\ it.index = access.index
        /\ it.prefix = [i \in 1..Len(access.parts) |-> FilterKey(access.parts[i])]
        /\ it.post.part = access.post
        /\ access.post = "object" => it.post.term = filters[3].v
        /\ access.post = "predicate" => it.post.term = filters[2].v
        /\ Len(log) >= 2
        /\ log[2].ev = "storage_range"
        /\ \A j \in 1..Len(log) : log[j].ev # "storage_load"

\* C21: the access strategy of a pattern depends only on which of subject,
\* predicate and object are bound once the input frame is resolved, and it
\* is the one the table lists for that combination, whatever the bound
\* values, the store and the input frame are.
C21_StrategyByBoundParts ==
    (pc # "pattern" /\ Resolved) =>
        Performs(iter.triple_iter,
                 StrategyTable(FilterBound("subject"), FilterBound("predicate"),
                               FilterBound("object")))

\* Subject and predicate bound, the subject by the input frame: the scan is
\* the secondary prefix of both.
C21_Witness ==
    /\ pc = "done"
    /\ Root = TriplePattern(Variable(0), Constant(Named(2)), Variable(2))
    /\ input_vars[0] = Some(AsSubject(Blank(1)))
    /\ input_vars[2] = None
    /\ iter.triple_iter.kind = "range"
    /\ iter.triple_iter.index = "secondary"
    /\ Len(iter.triple_iter.prefix) = 2
    /\ Len(out) = 1

\* C22: a pattern whose three parts are constants is answered by one point
\* lookup and gives at most one solution, on every store and for every
\* input frame.
C22_AllConstantPointLookup ==
    (pc # "pattern" /\ AllConstant(Root)) =>
        /\ iter.triple_iter.kind = "once"
        /\ Cardinality({j \in 1..Len(log) : log[j].ev = "storage_load"}) = 1
        /\ \A j \in 1..Len(log) : log[j].ev \notin {"storage_range", "storage_next"}
        /\ Len(OkValues(out)) <= 1
        /\ Len(out) <= 1

\* The stored triple is found, for an input frame that binds a slot, on a
\* store that holds a second triple with the same object and predicate.
C22_Witness ==
    /\ pc = "done"
    /\ AllConstant(Root)
    /\ input_vars[0] # None
    /\ Cardinality(storage) = 2
    /\ \A e \in storage : e.triple.object = Named(1) /\ e.triple.predicate = Named(2)
    /\ out = <<Ok(input_vars)>>

(***************************************************************************)
(* The elements of one triple pattern                                      *)
(***************************************************************************)
\* The part is an unbound variable of the input frame whose slot is `slot`.
Binds(part, slot) ==
    LET pv == PatternPart(part)
    IN pv.pv = "variable" /\ pv.slot = slot /\ input_vars[slot] = None

\* The input frame after the subject slot, then the predicate slot, then the
\* object slot were set from the triple.
Extended(triple) ==
    [slot \in DOMAIN input_vars |->
        IF Binds("object", slot) THEN Some(AsObject(triple.object))
        ELSE IF Binds("predicate", slot) THEN Some(AsPredicate(triple.predicate))
        ELSE IF Binds("subject", slot) THEN Some(AsSubject(triple.subject))
        ELSE input_vars[slot]]

ScanElements == ScanItems(storage, filters)

ExpectedElements ==
    [i \in 1..Len(ScanElements) |->
        IF IsOk(ScanElements[i]) THEN Ok(Extended(ScanElements[i].v))
        ELSE ScanElements[i]]

\* C27: for an input frame that resolves, the pattern yields one element per
\* element of the scan it opened, in the order of the scan: for a triple the
\* input frame with the output-binding slots set from the subject, the
\* predicate and the object of the triple and every other slot as in the
\* input, for an error of the scan that error.
C27_OneElementPerScannedItem ==
    (pc # "pattern" /\ Resolved) =>
        /\ IsPrefix(out, ExpectedElements)
        /\ pc = "done" => out = ExpectedElements

\* Two triples and an unreadable entry between or beside them, for an input
\* frame that binds a slot the pattern does not use.
C27_Witness ==
    /\ pc = "done"
    /\ Root = TriplePattern(Variable(0), Constant(Named(2)), Variable(2))
    /\ input_vars[0] = None /\ input_vars[2] = None
    /\ input_vars[1] # None
    /\ Len(out) = 2
    /\ \E i, j \in 1..2 :
        /\ IsErr(out[i])
        /\ IsOk(out[j])
        /\ out[j].v[0] # None /\ out[j].v[2] # None
        /\ out[j].v[1] = input_vars[1]

\* The term a part of the pattern stands for under the frame.
Substitute(part, frame) ==
    LET pv == PatternPart(part)
    IN IF pv.pv = "constant" THEN pv.term ELSE frame[pv.slot].v.term

IsSolution(frame) ==
    /\ \A i \in 1..3 :
        PatternPart(Parts[i]).pv = "variable" => IsSome(frame[PatternPart(Parts[i]).slot])
    /\ Triple(Substitute("subject", frame), Substitute("predicate", frame),
              Substitute("object", frame)) \in {e.triple : e \in storage}

\* C28: every Ok frame a triple pattern yields is a solution of the pattern:
\* the pattern with each variable replaced by the value the frame binds to
\* its slot is a stored triple, also when one unbound variable stands in two
\* positions.
C28_YieldedFramesAreSolutions ==
    pc # "pattern" => \A i \in 1..Len(out) : IsOk(out[i]) => IsSolution(out[i].v)

(***************************************************************************)
(* Frames along an evaluation path                                         *)
(***************************************************************************)
\* `g` binds every slot `f` binds, to the same value.
Extends(g, f) == \A slot \in DOMAIN f : IsSome(f[slot]) => g[slot] = f[slot]

Bindings(f) == {slot \in DOMAIN f : IsSome(f[slot])}

\* C26: whatever the operator and its input frame, every Ok frame it yields
\* binds each slot the input frame binds, to the same value, and so does
\* every frame it hands to an operator below it: a slot once set is neither
\* unset nor changed down the pipeline.
C26_BindingsOnlyGrow ==
    pc # "operator" =>
        /\ \A i \in 1..Len(out) : IsOk(out[i]) => Extends(out[i].v, input_vars)
        /\ \A j \in 1..Len(log) :
            log[j].ev = "invoke" => Extends(log[j].input, input_vars)

\* A for-loop join called with a frame that binds one slot yields a frame
\* that binds two more, after it called the right operand with a frame that
\* binds all three.
C26_Witness ==
    /\ pc = "done"
    /\ Root = ForLoopJoin(OperandA, OperandB)
    /\ Bindings(input_vars) = {1}
    /\ \E i \in 1..Len(out) : IsOk(out[i]) /\ Bindings(out[i].v) = {0, 1, 2}
    /\ \E j \in 1..Len(log) :
        /\ log[j].ev = "invoke"
        /\ log[j].node = <<"right">>
        /\ Bindings(log[j].input) = {0, 1, 2}

(***************************************************************************)
(* merge_with                                                              *)
(***************************************************************************)
\* Every slot bound in both frames holds equal values.
Agree(a, b) == \A i \in DOMAIN a : (IsSome(a[i]) /\ IsSome(b[i])) => a[i].v = b[i].v

\* C23: merging two frames of the same capacity succeeds exactly when every
\* slot bound in both holds equal values; the merged frame binds the slots
\* bound in either frame, and no other, to their values; and merging in the
\* other order succeeds or fails alike and binds the same.
C23_MergeIsCompatibleUnion ==
    pc = "merged" =>
        /\ IsSome(merged) <=> Agree(merge_self, merge_other)
        /\ IsSome(merged) =>
            /\ DOMAIN merged.v = DOMAIN merge_self
            /\ \A i \in DOMAIN merge_self :
                /\ IsSome(merge_self[i]) => merged.v[i] = merge_self[i]
                /\ IsSome(merge_other[i]) => merged.v[i] = merge_other[i]
                /\ IsSome(merged.v[i]) => (IsSome(merge_self[i]) \/ IsSome(merge_other[i]))
        /\ IsSome(merge_with(merge_other, merge_self)) <=> IsSome(merged)
        /\ IsSome(merged) => merge_with(merge_other, merge_self).v = merged.v

\* Two frames that share a slot with equal values and each bind a slot the
\* other leaves unbound.
C23_Witness ==
    /\ pc = "merged"
    /\ IsSome(merged)
    /\ \E i, j, k \in DOMAIN merge_self :
        /\ IsSome(merge_self[i]) /\ merge_self[i] = merge_other[i]
        /\ IsSome(merge_self[j]) /\ merge_other[j] = None
        /\ merge_self[k] = None /\ IsSome(merge_other[k])
        /\ merged.v[j] = merge_self[j]
        /\ merged.v[k] = merge_other[k]

(***************************************************************************)
(* The end-to-end example                                                  *)
(***************************************************************************)
AllNamespaces == [k \in NsKeys |-> Some(NsValue(k))]

ExampleRow(subject, object) == [name \in {"s", "o"} |-> IF name = "s" THEN subject ELSE object]

\* {s: s1, o: o1}, {s: s1, o: o2}, {s: s2, o: o1}.
ExampleRows ==
    {ExampleRow(Uri(NsValue(1), 1), Uri(NsValue(1), 1)),
     ExampleRow(Uri(NsValue(1), 1), LiteralValue(1)),
     ExampleRow(BlankNode(1), Uri(NsValue(1), 1))}

IsExample ==
    /\ storage = ExampleStore
    /\ plan = ExamplePlan
    /\ selection = ExampleSelection
    /\ namespaces = AllNamespaces

\* C24: on the store of the three triples (s1,p1,o1), (s1,p1,o2), (s2,p1,o1)
\* select of the pattern (?s, p1, ?o) with the selection s, o succeeds with
\* the three rows {s:s1,o:o1}, {s:s1,o:o2}, {s:s2,o:o1}, each once, read by
\* one full scan of the primary index filtered on the predicate.
C24_ExampleGivesThreeRows ==
    (IsExample /\ pc = "returned") =>
        /\ IsOk(response)
        /\ Len(response.v.results.bindings) = 3
        /\ {response.v.results.bindings[i] : i \in 1..3} = ExampleRows
        /\ iter.triple_iter.kind = "range"
        /\ iter.triple_iter.index = "primary"
        /\ iter.triple_iter.prefix = <<>>
        /\ iter.triple_iter.post = PostPredicate(Named(2))
        /\ Cardinality({j \in 1..Len(log) : log[j].ev = "storage_range"}) = 1
        /\ \A j \in 1..Len(log) : log[j].ev # "storage_load"

\* The example has returned its table, after the scan read the three
\* entries and its end.
C24_Witness ==
    /\ IsExample
    /\ pc = "returned"
    /\ IsOk(response)
    /\ response.v.head.vars = <<"o", "s">>
    /\ Len(rows) = 3
    /\ Cardinality({j \in 1..Len(log) : log[j].ev = "storage_next"}) = 4

(***************************************************************************)
(* The stores during a query                                               *)
(***************************************************************************)
\* C25: no step of a query writes to the stores: through select, eval_plan
\* and every pull, whether the query returns rows, returns an error or is
\* left unfinished, the stored triples and the namespaces stay as they were.
C25_StoresNeverWritten == [][storage' = storage /\ namespaces' = namespaces]_vars

\* A select that returned an error after it read an entry it could not read
\* back and looked a namespace up.
C25_Witness ==
    /\ pc = "returned"
    /\ IsErr(response)
    /\ storage # {}
    /\ \E j \in 1..Len(log) : log[j].ev = "storage_next" /\ log[j].res = "err"
    /\ \E j \in 1..Len(log) : log[j].ev = "ns_lookup"

(***************************************************************************)
(* What select returns                                                     *)
(***************************************************************************)
\* The stream of the pipeline select compiled.
Upstream == Denote(Root, EmptyFrame)

\* The element cannot become a row: it is an error, or a frame that leaves a
\* selected slot unbound or binds one to a node whose namespace has no
\* record.
Fails(elem) ==
    \/ IsErr(elem)
    \/ /\ IsOk(elem)
       /\ \E name \in DOMAIN bindings :
            LeavesUnbound(elem.v, name) \/ LacksNamespace(elem.v, name)

FirstFailure ==
    CHOOSE k \in 1..Len(Upstream) :
        Fails(Upstream[k]) /\ \A j \in 1..(k - 1) : ~Fails(Upstream[j])

\* C29: select returns Ok, with one row per element of the stream, exactly
\* when no element of the stream is an error, every frame binds every
\* selected slot and every namespace key of a selected value has a record;
\* otherwise it returns the error of the first element that fails, in stream
\* order, and no table, whatever rows came before and whatever elements
\* would follow.
C29_SelectAllOrNothing ==
    (pc = "returned" /\ \A i \in 1..Len(selection) : ~Unknown(selection[i])) =>
        IF \A k \in 1..Len(Upstream) : ~Fails(Upstream[k])
        THEN /\ IsOk(response)
             /\ response.v.results.bindings = [k \in 1..Len(Upstream) |-> RowOf(Upstream[k].v)]
        ELSE LET elem == Upstream[FirstFailure]
             IN /\ IsErr(response)
                /\ Len(out) = FirstFailure
                /\ IsErr(elem) => response = elem
                /\ IsOk(elem) =>
                    /\ response.e \in {"Couldn't find variable in result set",
                                       "Namespace not found"}
                    /\ (\A name \in DOMAIN bindings : ~LacksNamespace(elem.v, name))
                        => response = Err("Couldn't find variable in result set")
                    /\ (\A name \in DOMAIN bindings : ~LeavesUnbound(elem.v, name))
                        => response = Err("Namespace not found")

\* An error returned after a row was made and before a frame that would
\* have given another.
C29_Witness ==
    /\ pc = "returned"
    /\ IsErr(response)
    /\ Len(rows) >= 1
    /\ Len(out) < Len(Upstream)
    /\ \E k \in (Len(out) + 1)..Len(Upstream) : ~Fails(Upstream[k])

(***************************************************************************)
(* Termination                                                             *)
(***************************************************************************)
\* A number of elements no stream of the node exceeds on the store: a scan
\* gives at most one element per entry and a point lookup one; a for-loop
\* join at most the right stream per left element; a cartesian join the
\* right errors and at most one merge per pair; Skip and Limit add nothing.
RECURSIVE StreamBound(_)
StreamBound(node) ==
    CASE node.node = "TriplePattern" -> Max(Cardinality(storage), 1)
      [] node.node = "ForLoopJoin" -> StreamBound(node.left) * StreamBound(node.right)
      [] node.node = "CartesianProductJoin" ->
           StreamBound(node.right) + StreamBound(node.left) * StreamBound(node.right)
      [] node.node = "Skip" -> StreamBound(node.child)
      [] node.node = "Limit" -> Min(node.first, StreamBound(node.child))

\* C30: on a finite store and a finite plan the stream of the pipeline ends
\* after finitely many elements, at most as many as the store and the plan
\* allow, each pull returning, and select eventually returns.
C30_SelectTerminates ==
    /\ [](Len(out) <= StreamBound(Root))
    /\ <>(pc = "returned")

\* A select over a cartesian join that pulled two or more elements from a
\* store of two entries and returned its table.
C30_Witness ==
    /\ pc = "returned"
    /\ Root.node = "CartesianProductJoin"
    /\ Cardinality(storage) = 2
    /\ Len(out) >= 2
    /\ IsOk(response)

(***************************************************************************)
(* The header of the response                                              *)
(***************************************************************************)
SelectionNames == {selection[i] : i \in 1..Len(selection)}

\* C31: a select that succeeds returns as header the selected names, each
\* once, in ascending order, however the selection orders and repeats them,
\* and every row it returns has the names of the header, and no other, as
\* keys.
C31_HeaderSortedWithoutDuplicates ==
    (pc = "returned" /\ IsOk(response)) =>
        LET head == response.v.head.vars
            table == response.v.results.bindings
        IN /\ {head[i] : i \in 1..Len(head)} = SelectionNames
           /\ \A i, j \in 1..Len(head) : i < j => NameLess(head[i], head[j])
           /\ \A i \in 1..Len(table) : DOMAIN table[i] = {head[j] : j \in 1..Len(head)}

\* A selection that names a twice and c before the second a returned the
\* header a, c and a row.
C31_Witness ==
    /\ pc = "returned"
    /\ IsOk(response)
    /\ selection = <<"a", "c", "a">>
    /\ response.v.head.vars = <<"a", "c">>
    /\ Len(response.v.results.bindings) >= 1

(***************************************************************************)
(* The pulls of Limit                                                      *)
(***************************************************************************)
LimitsOf(node) == {n \in NodesOf(node, <<>>) : n.node.node = "Limit"}

ChildPulls(n) == Len(YieldsAt(Append(n.path, "child")))

\* C32: a Limit{first: n} pulls its child at most n times each time it is
\* called: when it has emitted n elements it reports the end without another
\* pull of the child, and with n = 0 it never pulls the child.
C32_LimitPullsAtMostN ==
    pc # "built" =>
        \A n \in LimitsOf(Root) :
            /\ ChildPulls(n) <= n.node.first * Len(InvokesAt(n.path))
            /\ n.node.first = 0 => YieldsAt(Append(n.path, "child")) = <<>>

\* A limit of one over a child of two elements was pulled to its end: one
\* element out, one pull of the child.
C32_Witness ==
    /\ pc = "done"
    /\ Root.node = "Limit"
    /\ Root.first = 1
    /\ Len(out) = 1
    /\ Len(Stream(Root.child, <<"child">>, EmptyFrame)) = 2
    /\ ChildPulls([node |-> Root, path |-> <<>>]) = 1

(***************************************************************************)
(* The variant of a converted parse error                                  *)
(***************************************************************************)
\* C33: the two kinds of parse error stay apart when they are converted: a
\* TurtleError becomes RDFParseError::Turtle and an RdfXmlError becomes
\* RDFParseError::XML, each with the text of the error.
C33_ParseErrorsKeptDistinct ==
    pc = "converted" =>
        /\ parse_error.parser = "turtle" => rdf_error = Some(Turtle(parse_error.message))
        /\ parse_error.parser = "xml" => rdf_error = Some(XML(parse_error.message))

====
